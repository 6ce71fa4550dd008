\* A sequence of three commands: refuted by a negative return code.
CONSTANTS
  Lines <- MCLines
  MaxTokens = 7
  MaxWord = 3
  MaxArgc = 2
  MaxCmds = 3
SPECIFICATION Spec
INVARIANTS SequenceIgnoresResults
CHECK_DEADLOCK FALSE
