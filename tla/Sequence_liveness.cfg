SPECIFICATION FairSpec
CONSTANTS
  e1 = e1  e2 = e2  r1 = r1  r2 = r2
  welcome = welcome  fork = fork  tips = tips  nap = nap  done = done
  Enrollments <- OneEnrollment
  Releases <- OneRelease
  Steps <- AllSteps
  End <- EmptyString
  Graph <- OneJourney
  First <- FirstSteps
  NoJob <- Nothing
  NoRelease <- Nowhere
  MaxDisturbances = 3
  MaxQueued = 2
PROPERTIES
  QueueMoves
  JourneyMoves
