\* Two ticks and Close in every order; with two closers and two services the
\* state space is the same in kind and too large for the liveness.
CONSTANTS
  Services = {s1, s2}
  Dispatchers = {d1, d2}
  Closers = {c1}
  FeedbackCap = 2
  MaxClock = 2
SPECIFICATION Spec
INVARIANTS NothingLost FeedbackHonest
PROPERTIES ComesToRest ImplementsMailbox
CHECK_DEADLOCK FALSE
