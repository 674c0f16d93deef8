\* No symmetry: it is not sound for the liveness properties.
CONSTANTS
  Letters <- MCLetters
  Dash = "-"
  Words <- MCWords
  MAX_GUESSES = 3
  MAX_MSG = 128
  Players = {p1, p2, p3, p4, p5}
  NULL = NULL

SPECIFICATION FairStateSpec

INVARIANTS
  GameTypeOK
  BoardTruthful
  GuessesAccounted
  RoundOpen
  StatusBounded
  TurnsOK

PROPERTIES
  NoOvertaking
  TurnComesRound
  RoundsEnd
