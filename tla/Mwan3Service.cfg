SPECIFICATION Spec
SYMMETRY Symmetry
CONSTANTS
  wan = wan
  wan6 = wan6
  Iface <- WanAndWan6
  Alike <- WanLikeWan6
  PPPoE <- WanAndWan6
  Command = Command
  NoOne = NoOne
  Handler = {h1, h2}
  Monitor = {m1, m2}
  WaitsExpire = FALSE
  LateFlag = FALSE
INVARIANTS
  Exclusive
  StopLasts
  LoadedAreTracked
