\* The add-on's configuration; the one property states what the documentation says.
CONSTANTS
  FixedId = TRUE
  SelfAddressed = TRUE
SPECIFICATION Spec
INVARIANT SelfHeals
