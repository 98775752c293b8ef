SPECIFICATION Spec
CONSTANTS
  Messages <- OneMessage
  Events <- OneEvent
  Users <- OneUser
  Channels <- BothChannels
  Voice = "voice"
  Sms = "sms"
  eventOf <- BothOfOneEvent
  channelsOf <- VoiceForAll
  methodsOf <- VoiceMethod
  Workers = {w1}
  Dispatchers = {d1}
  Handlers = {}
  MaxFaults = 0
  None = None
INVARIANTS
  DialsTheRecipient
CHECK_DEADLOCK FALSE
