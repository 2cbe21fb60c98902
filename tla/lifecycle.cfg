\* One process, two requests and up to two signals at any time.
SPECIFICATION Spec
CONSTANTS
  r1 = r1
  r2 = r2
  Req <- MCReq
  MaxSignals = 2
INVARIANTS ClosesStore ExitStatus LostWhenStopped
PROPERTIES SignalStops
\* The process has exited.
CHECK_DEADLOCK FALSE
