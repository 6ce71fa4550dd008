\* Up to six tokens, three commands and two arguments are within the limits.
CONSTANTS
  Lines <- MCLines
  MaxTokens = 7
  MaxWord = 3
  MaxArgc = 2
  MaxCmds = 3
SPECIFICATION Spec
INVARIANTS TokensAreLine ParserReadsLine LineRunsAsWritten
CHECK_DEADLOCK FALSE
