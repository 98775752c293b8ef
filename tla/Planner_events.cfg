SPECIFICATION Spec
CONSTANTS
  Messages <- TwoMessages
  Events <- OneEvent
  Users <- OneUser
  Channels <- BothChannels
  Voice = "voice"
  Sms = "sms"
  eventOf <- BothOfOneEvent
  channelsOf <- SecondOnVoice
  methodsOf <- VoiceMethod
  Workers = {w1, w2}
  Dispatchers = {d1}
  Handlers = {}
  MaxFaults = 1
  None = None
SYMMETRY Symmetric
INVARIANTS
  TypeOK
  OneAttemptPerEvent
  ProcessedMeansPlanned
  OrphansAccounted
  SuppressedByAnother
  TruthfulOutcome
  SpanCoversProcessed
PROPERTIES
  CalledOncePerEvent
CHECK_DEADLOCK FALSE
