\* Families that are smaller than family_increment.
CONSTANTS
  Letters = {"a", "b", "c"}
  Dash = "-"
  family_increment = 3
  MAX_WORD_LENGTH = 2
  Numbers = {0, 1, 2, 3, 4}
  Dictionaries <- MCDictionaries
  OtherChar = "C"
  NoWord = NoWord

SPECIFICATION WheelSpec

INVARIANTS
  MostWords
