\* Every order of the operations on lists of at most five elements.
SPECIFICATION Spec
CONSTANTS
  None = None
  Ids = {i1, i2, i3, i4, i5}
  Elts = {1, 2}
INVARIANTS
  TypeOK
  CachedEndsAreStored
  Linked
PROPERTIES
  ImplementsQueue
