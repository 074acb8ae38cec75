CONSTANTS
  Invocations <- OpenInvocations
  Results <- OpenResults
  Upper <- MCUpper
  MaxRows = 2

SPECIFICATION Spec

INVARIANTS CaseIsIrrelevant EveryVariableShown ZeroMeansWritten NoFaultUnseen

\* The program ends.
CHECK_DEADLOCK FALSE
