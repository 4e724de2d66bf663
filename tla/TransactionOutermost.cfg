SPECIFICATION Spec
CONSTANTS
  MaxEvents = 4
  MaxDepth = 2
  Balanced = TRUE
  ObserverThrows = FALSE
CHECK_DEADLOCK FALSE
PROPERTY ImplementsContract
