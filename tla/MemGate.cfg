SPECIFICATION Spec
CONSTANTS
  old = old
  mid = mid
  new = new
  alice = alice
  city = city
  NoAnswer = NoAnswer
  Payloads <- MCPayloads
  Similar <- MCSimilar
  Updating <- MCUpdating
  Scores <- MCScores
  ColdStart = 3
  CheckpointEvery = 2
  ConsolidateEvery = 2
  MinTerms = 2
  TopK = 2
  TopConflicts = 3
  MaxRows = 6
  MaxSearched = 4
  MaxCrashes = 1
  MaxFailures = 1
CONSTRAINT Few
INVARIANTS TypeOK Succession Answers LastWord ColdOnce
CHECK_DEADLOCK FALSE
