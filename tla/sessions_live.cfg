SPECIFICATION FairSpec
CONSTANTS
  a1 = a1
  a2 = a2
  a3 = a3
  c1 = c1
  c2 = c2
  NoChar = NoChar
  Accounts = {a1, a2}
  Chars = {c1}
  Owner <- Solo
  GameMasters = {}
  PlayerLimit = 1
  HardLimit = 1
  LoginPerTick = 1
  LogoutDelay = TRUE
  Grace = FALSE
  IdleKick = FALSE
  MaxSessions = 3
  DelayTicks = 1
CHECK_DEADLOCK FALSE
PROPERTIES SlotsFilled LoadingEnds DisconnectedEnds
