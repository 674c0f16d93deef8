\* Three descriptors, two of them busy at a time.
CONSTANTS
  Letters = {"a", "b"}
  Chars = {"a", "b", "C"}
  Dash = "-"
  Words <- MCWords
  MAX_GUESSES = 2
  MAX_MSG = 128
  listenfd = 4
  Players = {5, 6, 7}
  NULL = NULL
  EOL = EOL
  Segments <- MCLines
  MaxInput = 2
  MaxBacklog = 1
  MaxBusy = 2
  MaxBroken = 0

SPECIFICATION ServerSpec

INVARIANTS
  NamesDiffer
  StateShown
  OnlyMoverAsked

PROPERTY ImplementsWordGame
