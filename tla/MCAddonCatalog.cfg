\* No answer is lost and no hook panics.
CONSTANTS
  Attempts = 2
  Replies = {"ok", "final"}
  Panics = FALSE
SPECIFICATION Spec
PROPERTIES
  CleansUpItsCatalog
