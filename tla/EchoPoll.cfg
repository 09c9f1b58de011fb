SPECIFICATION FairSpec
CONSTANTS
  Second = 4
  MaxEcho = 2
  Failures = {"open", "mute", "poll"}
INVARIANTS
  PromptReadingIsEcho
  TriggersAfterEcho
PROPERTIES
  HangsOnlyOnLoss
  NoReadingAfterLoss
