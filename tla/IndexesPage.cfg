\* One field, of two collections.
CONSTANTS
  IxCollections = {c1, c2}
  IxFields = {f}
  NoIndex = NoIndex
SPECIFICATION Spec
PROPERTY ReadyIsBuilt
CHECK_DEADLOCK FALSE
