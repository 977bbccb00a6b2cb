SPECIFICATION Spec
CONSTANTS
  c1 = c1  c2 = c2  h1 = h1  h2 = h2
  Contacts <- OneContact
  Handlers <- TwoHandlers
  Policies <- ThreeTerms
  Version <- PurposesOfFirst
  NoContact <- Nobody
  PendingLimit = 2
  MaxTokens = 2
  MaxDisturbances = 2
SYMMETRY Symmetric
INVARIANTS
  EligibleMeansAgreed
  OneMailPerRequest
  CooldownHolds
  WithdrawalLetsOneMailOut
PROPERTIES
  OnlyClicksConfirm
