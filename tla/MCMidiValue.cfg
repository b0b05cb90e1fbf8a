SPECIFICATION Spec
CONSTANTS
  Values <- MCValues
  max_value <- MCMax
  default_value <- MCDefault
  EnvelopeValues <- MCEnvelope
  Roles <- MCAllRoles
INVARIANTS
  TypeOK
  CacheTellsTruth
