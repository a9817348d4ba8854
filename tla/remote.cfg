\* The remote side alone: at most MaxLaunch submissions and stops.
CONSTANTS
  a1 = a1
  a2 = a2
  b1 = b1
  A = A
  B = B
  None = None
  Container <- MCContainer
  Instance <- MCInstance
  InstOf <- MCInstOf
  Code <- MCCode
  Faults <- MCFaults
  MaxLaunch = 3
SPECIFICATION RemoteSpec
INVARIANTS
  RemoteTypeOK
  JidNamesOwnJob
  StatusHasAuthor
  CancelHasStop
  SoleSubmissionStoppable
\* every door and job may have ended and the client may ask nothing more
CHECK_DEADLOCK FALSE
