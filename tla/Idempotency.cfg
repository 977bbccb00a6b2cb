SPECIFICATION FairSpec
CONSTANTS
  r1 = r1  r2 = r2  r3 = r3  k1 = k1  k2 = k2  i1 = i1  i2 = i2
  Requests <- ThreeRequests
  Keys <- TwoKeys
  Inputs <- TwoInputs
  Nil <- Nothing
  MaxContacts = 4
  MaxTrouble = 2
INVARIANTS
  RepeatOnlyByAccident
  SameAnswer
  StuckOnlyWhenAbandoned
  DeletionRedactsAnswers
PROPERTIES
  ClaimsEnd
