SPECIFICATION Spec
CONSTANTS
  Namespaces = {"team"}
  MaxWrites = 3
CHECK_DEADLOCK FALSE
INVARIANT AccessModesAgree
PROPERTY ChangesAreVersioned
