CONSTANTS
  host = host
  guest = guest
  world = world
  own = own
  foreign = foreign
  NoOperation = NoOperation
  Accounts <- MCAccounts
  Worlds <- MCWorlds
  Bots <- MCBots
  Owner <- MCOwner
  Home <- MCHome
  Identity <- MCIdentity
  RetryLimit = 2
  ChildBudget = 1
  MaxFaults = 3
SPECIFICATION HiddenSpec
INVARIANTS
  ChildrenConvergeFirst
CHECK_DEADLOCK FALSE
