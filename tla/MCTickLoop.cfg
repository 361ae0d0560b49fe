\* Two loops, a manual step and an operator in every order; the first tick
\* jumps to 2, and the counters wrap at 3.
SPECIFICATION Spec
CONSTANTS
  Runners = {r1, r2}
  Steppers = {s1}
  Operators = {o1}
  Requests = {"toggle", "enable"}
  Warm = 2
  Wrap = 3
INVARIANTS OneAtATime CountsTrue 
PROPERTIES LetsGo TicksUntilCollision
