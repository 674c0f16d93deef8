CONSTANTS
  MAX_WORD_LENGTH = 5
  SIZE = 4
  MAX_WORD = 4
  MAX_MSG = 6
  MaxFile = 10
  NL = 0

SPECIFICATION ReadersSpec

INVARIANTS
  ReadersTypeOK
  NoLetterLost
  WordsAreLines
  EndedLinesKept
  IndexFound
  PickIsLine
