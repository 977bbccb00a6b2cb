SPECIFICATION Spec
CONSTANTS
  b1 = b1  b2 = b2  c1 = c1  c2 = c2
  Broadcasts <- OneBroadcast
  Contacts <- OneContact
  NoKey <- Nobody
  CircuitThreshold = 1
  MaxDisturbances = 1
PROPERTIES
  PausedWorkRemainsRetryable
