SPECIFICATION Spec
CONSTANTS
  Callers = {p1, p2}
  NoCaller = NoCaller
  MaxPolls = 2
  Failures = {"setup", "request_irq"}
INVARIANTS
  MeasuresOnePulse
  OpenedHoldsAll
  ClosedIsFree
PROPERTIES
  LeakIsFinal
