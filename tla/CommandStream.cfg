SPECIFICATION Spec
CONSTANTS
  Vocabulary <- MCVocabulary
  MaxIssued = 3
INVARIANTS
  ObeysInOrder
  CompositesNeverObeyed
  PacedClientIsObeyed
  SameAsEarlierCar
CHECK_DEADLOCK FALSE
