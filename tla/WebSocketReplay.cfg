SPECIFICATION Spec
CONSTANTS
  MaxSessions = 2
  MaxConns = 2
  NoConn = NoConn
  HistoryLimit = 2
  MaxSends = 3
  MaxResumes = 2
PROPERTIES ReplayFinishes
CHECK_DEADLOCK FALSE
