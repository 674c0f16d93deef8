\* One player is enough to fill the message.
CONSTANTS
  Letters <- MCManyLetters
  Dash = "-"
  Words <- MCLongWords
  MAX_GUESSES = 4
  MAX_MSG = 128
  Players = {p1}
  NULL = NULL

SPECIFICATION StateSpec

INVARIANT StatusFits
