SPECIFICATION Spec
CONSTANTS
  a = a  p1 = p1  p2 = p2  t1 = t1  t2 = t2  t3 = t3  t4 = t4
  None = None
  Label <- LabelA
  Test <- Tests3
  Proc <- Procs
  Pid <- Procs
  ProcOf <- ProcOf3
  PidOf <- ReusedPid
  Threads <- TwoThreads
  LabelsOf <- Labels3
  SerialOf <- Serial3
  DbFaults = FALSE
PROPERTY DeadRowsDoNotBlock
