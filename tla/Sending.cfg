SPECIFICATION FairSpec
CONSTANTS
  t1 = t1  t2 = t2  d1 = d1  w1 = w1  a1 = a1  m1 = m1  s1 = s1  s2 = s2
  Transports <- TwoTransports
  Domains <- OneDomain
  Webhooks <- OneWebhook
  SenderDomain <- OneForAll
  Streams <- TwoStreams
  Admins <- OneAdmin
  Maker <- Somebody
  Provisioned <- OneProvisioned
  FirstStream <- ForNews
  Registered = {}
  Development = FALSE
  Window = 1
  MaxRequests = 2
  Deliveries <- OneDelivery
  Subscribers <- TwoSubscribers
  Confirmed <- OneConfirmed
  Pins <- PinOrNot
  StreamOf <- NewsAndNone
  BucketsOf <- OwnAndProject
  Installation <- Installed
  None <- Nothing
  MinuteBuckets <- ByMinute
  HourBuckets <- ByHour
  Maximum <- OneEach
  MaxTrouble = 1
INVARIANTS
  RetryKeepsProvider
  MinuteHolds
  DeletionLetsOneMailOut
PROPERTIES
  DeletedStaysDeleted
  
