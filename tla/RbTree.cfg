SPECIFICATION TreeSpec
CONSTANTS
  Nodes = {1, 2, 3, 4, 5, 6, 7, 8, 9}
  START <- MCStart
  LAST <- MCLast
INVARIANTS
  RedBlack
  TraversalsExact
PROPERTIES
  ImplementsOrder
  LoopsClimb
