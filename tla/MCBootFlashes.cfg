CONSTANTS
  ButtonCount = 2
SPECIFICATION Spec
INVARIANT FaultFlashes
