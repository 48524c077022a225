\* A buffer of four samples, quanta of two.
SPECIFICATION Spec
CONSTANTS
  Capacity = 4
  Wrap = 8
  Quantum = 2
  Batches = {1, 3}
  MaxPushed = 4
CHECK_DEADLOCK FALSE
PROPERTY PushedIsHeard
