SPECIFICATION Spec
CONSTANTS
  Signs = {"-", "/", "^"}
  Longest = 9
  MAXTOKENS = 9
  Lexemes <- MCLexemes
  Inputs <- MCInputs
  CutOff <- MCCutOff
INVARIANTS TypeOK NoUnderflow AnswerIsExpected
CHECK_DEADLOCK FALSE
