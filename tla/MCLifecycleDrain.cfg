SPECIFICATION Spec
CONSTANTS
  Events = {e1, e2, e3}
  NoEvent = NoEvent
  QueueCap = 2
  Viewers = {v1}
INVARIANT DrainedAtCleanExit
\* The process ends.
CHECK_DEADLOCK FALSE
