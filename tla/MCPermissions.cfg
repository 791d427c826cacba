SPECIFICATION FairSpec
CONSTANTS
  i1 = i1
  i2 = i2
  Inst = {i1, i2}
  NoInst = NoInst
  MaxEvents = 3
  MaxBinds = 1
  MaxAborts = 1
  cdn = cdn
  lab = lab
  None = None
  Call = {1, 2, 3}
  NameClass <- MCNameClass
  Width = 3
  Banned <- MCBanned
  AddressClass <- MCAddressClass
  MaxTemporary = 1
  Worlds <- MCWorlds
CHECK_DEADLOCK FALSE
PROPERTIES NothingOpensByItself RevocationLands ScopeIsKept
