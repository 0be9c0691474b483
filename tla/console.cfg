SPECIFICATION Spec
CONSTANTS
  MaxVersion = 2
  MaxPresses = 3
INVARIANT SpinnerHonest
INVARIANT Fresh
PROPERTY Settles
CHECK_DEADLOCK FALSE
