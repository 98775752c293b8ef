SPECIFICATION FairSpec
CONSTANTS
  Messages <- TwoMessages
  Events <- OneEvent
  Users <- OneUser
  Channels <- BothChannels
  Voice = "voice"
  Sms = "sms"
  eventOf <- SecondWithoutEvent
  channelsOf <- SecondOnSms
  methodsOf <- VoiceMethod
  Workers = {w1}
  Dispatchers = {d1, d2}
  Handlers = {h1}
  MaxFaults = 1
  None = None
INVARIANTS
  TruthfulOutcome
  PartedOnlyByDisturbance
PROPERTIES
  EveryMessageServed
CHECK_DEADLOCK FALSE
