\* Two descriptors: a third client makes accept fail.
CONSTANTS
  Letters = {"a", "b"}
  Chars = {"a", "b", "C"}
  Dash = "-"
  Words <- MCWords
  MAX_GUESSES = 2
  MAX_MSG = 128
  listenfd = 4
  Players = {5, 6}
  NULL = NULL
  EOL = EOL
  Segments <- MCPieces
  MaxInput = 2
  MaxBacklog = 1
  MaxBusy = 2
  MaxBroken = 1

SPECIFICATION ServerSpec

INVARIANT MoverAsked
