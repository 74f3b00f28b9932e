SPECIFICATION CallSpec
CONSTANTS
  s1 = s1
  s2 = s2
  Email = Email
  Sms = Sms
  Push = Push
  Other = Other
  PrimaryEmail = PrimaryEmail
  FallbackEmail = FallbackEmail
  PrimarySms = PrimarySms
  FallbackSms = FallbackSms
  PrimaryPush = PrimaryPush
  FallbackPush = FallbackPush
  Backup = Backup
  ForcePrimaryFailure = TRUE
  NoJob = NoJob
  NoSlot = NoSlot
  NoChannel = NoChannel
  Users = {}
  Keys = {}
  Requests = {}
  UserOf <- NoRequest
  KeyOf <- NoRequest
  ChannelOf <- NoRequest
  Channels <- AllChannels
  Slots = {s1, s2}
  Providers <- AllProviders
  ServesOf <- Serves
  PriorityOf <- Priority
  Behaviour <- Moody
INVARIANT PlainErrorFailsOver
