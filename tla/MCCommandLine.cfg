CONSTANTS
  Invocations <- MCInvocations
  Results <- MCResults
  Upper <- MCUpper
  MaxRows = 2

SPECIFICATION Spec

INVARIANTS OptionsMeant ExitCodeTells

PROPERTIES OutputTouchedLast

\* The program ends.
CHECK_DEADLOCK FALSE
