SPECIFICATION FairSpec
CONSTANTS
  wan = wan
  wan6 = wan6
  Iface = {wan}
  Alike = {}
  PPPoE = {wan}
  Command = Command
  NoOne = NoOne
  Handler = {h1}
  Monitor = {m1}
  WaitsExpire = FALSE
  LateFlag = TRUE
PROPERTIES
  RequestsEnd
