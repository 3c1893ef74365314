\* three objects and three contents, with and without owners that change items
CONSTANTS
  Items = {x1, x2, x3}
  Contents = {c1, c2, c3}
  MaxLength = 2
SPECIFICATION Spec
INVARIANTS
  SetInv
PROPERTIES
  ImplementsUniqueSequence
