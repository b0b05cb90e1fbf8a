SPECIFICATION FairSpec
CONSTANTS
  Values <- MCValues
  max_value <- MCMax
  default_value <- MCDefault
  EnvelopeValues <- MCEnvelope
  Roles <- MCAckRoles
PROPERTIES
  ReleaseSettles
  ReleaseIsHeard
