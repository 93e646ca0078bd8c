SPECIFICATION Spec
CONSTANTS
  a1 = a1  a2 = a2  t1 = t1  t2 = t2
  Acquisitions = {a1, a2}
  Stamp <- Apart
  Bars = Bars
  Absent = Absent
  MaxFaults = 3
CHECK_DEADLOCK FALSE
INVARIANT SuccessVerifies
PROPERTIES FailureLeavesNoTrace CompleteIsUntouched
