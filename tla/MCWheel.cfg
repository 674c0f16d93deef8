CONSTANTS
  Letters = {"a", "b", "c"}
  Dash = "-"
  family_increment = 2
  MAX_WORD_LENGTH = 2
  Numbers = {0, 1, 2, 3, 4}
  Dictionaries <- MCDictionaries
  OtherChar = "C"
  NoWord = NoWord

SPECIFICATION FairWheelSpec

INVARIANTS
  WheelTypeOK
  FamiliesDivide
  WordsExplainBoard
  GuessLeft
  GrownIsBiggest

PROPERTIES
  ImplementsHangMan
  RoundEnds
  EndOfInputEnds
