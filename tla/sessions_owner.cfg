SPECIFICATION Spec
CONSTANTS
  a1 = a1
  a2 = a2
  a3 = a3
  c1 = c1
  c2 = c2
  NoChar = NoChar
  Accounts = {a1, a2}
  Chars = {c1, c2}
  Owner <- OneAccount
  GameMasters = {a2}
  PlayerLimit = 1
  HardLimit = 2
  LoginPerTick = 1
  LogoutDelay = TRUE
  Grace = TRUE
  IdleKick = TRUE
  MaxSessions = 3
  DelayTicks = 1
CHECK_DEADLOCK FALSE
INVARIANTS TypeOK QueueExact NoDangling PlayerOwned SavedUnlessLost
