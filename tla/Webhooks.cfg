SPECIFICATION FairSpec
CONSTANTS
  e1 = e1  e2 = e2  p1 = p1  p2 = p2
  Events <- OneEvent
  Endpoints <- TwoEndpoints
  Wanted <- All
  NoRow <- Nothing
  FanOutLimit = 1
  PerTick = 2
  MaxAttempts = 2
  MaxDisturbances = 2
PROPERTIES
  RowsSettle
  MailGetsItsTurn
  ImplementsEventLedger
INVARIANTS
  AbandonedInTurn
  StopLetsOnePostOut
