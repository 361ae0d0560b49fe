\* The default proportions of the intervals (2 s, 1 s to 10 s, step 1.25) in
\* units of 100 ms; level 3 is reached at 6 overruns, and one more counted.
SPECIFICATION Spec
CONSTANTS
  TickInterval = 20
  MinTickInterval = 10
  MaxTickInterval = 100
  StepNum = 5
  StepDen = 4
  SoftNum = 19
  SoftDen = 17
  SafetyModeThreshold = 2
  MaxOverruns = 7
INVARIANTS LevelCoversOverruns
PROPERTIES NeverJumps Recovers
