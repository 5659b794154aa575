SPECIFICATION Spec
CONSTANTS
  Chars <- SyntaxChars
  MaxLength = 3
  Numbers <- PlainNumbers
INVARIANTS
  
  StringsAreWhole
CHECK_DEADLOCK FALSE
