CONSTANTS
  Every = 3
  Look = 2
  Fps = 2
  InitialSteps = 6
  TerminalSteps = 7
  Paces = {3, 4}
  MaxMishaps = 1
SPECIFICATION Spec
INVARIANT SuccessUndisturbed
