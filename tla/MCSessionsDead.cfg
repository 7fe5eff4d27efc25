CONSTANTS
  s1 = s1
  s2 = s2
  Port = Port
  None = None
  Client = {c1}
  Server = {v1}
  Session = {s1}
  MaxSessions = 1
  HandleLists <- Single
  MayStop = {c1}
  MayClose = FALSE
SPECIFICATION Spec
INVARIANT DeadThreadsStayDead
CHECK_DEADLOCK FALSE
