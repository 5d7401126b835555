SPECIFICATION Spec
CONSTANTS
  Names <- MCNames
  Admins <- MCAdmins
  Clients <- MCClients
  Conns <- MCConns
  MaxSecrets = 2
  Troubles <- MCNone
  MaxTroubles = 0
INVARIANTS
  RevocationEffective
CHECK_DEADLOCK FALSE
