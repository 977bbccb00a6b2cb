SPECIFICATION FairSpec
CONSTANTS
  b1 = b1  b2 = b2  c1 = c1  c2 = c2
  Broadcasts <- OneBroadcast
  Contacts <- OneContact
  NoKey <- Nobody
  CircuitThreshold = 2
  MaxDisturbances = 4
PROPERTIES
  JobsSettle
  FeedbackSurvives
  ImplementsMailLedger
