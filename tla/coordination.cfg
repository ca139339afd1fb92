SPECIFICATION Spec
CONSTANTS
  a = a  p1 = p1  p2 = p2  t1 = t1  t2 = t2  t3 = t3  t4 = t4
  None = None
  Label <- LabelA
  Test <- Tests4
  Proc <- Procs
  Pid <- Procs
  ProcOf <- ProcOf4
  PidOf <- DistinctPids
  Threads <- TwoThreads
  LabelsOf <- Labels4
  SerialOf <- Serial4
  DbFaults = TRUE
INVARIANTS IInv MutualExclusion SuccessLeavesNoRow
PROPERTIES LiveRowsStay ImplementsSerialExec EveryTestEnds
