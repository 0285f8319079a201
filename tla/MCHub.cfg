SPECIFICATION Spec
CONSTANTS
  Viewers = {v1, v2}
  BroadcastCap = 2
  ViewerCap = 1
  LastEvent = 4
INVARIANTS TypeOK NoSendOnClosed NoLeak
PROPERTIES InOrder JoinsAndLeaves
