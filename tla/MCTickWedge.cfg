SPECIFICATION Spec
CONSTANTS
  Runners = {r1}
  Steppers = {s1}
  Operators = {o1}
  Requests = {"toggle"}
  Warm = 1
  Wrap = 2
PROPERTY
  KeepsTicking
