SPECIFICATION FairSpec
CONSTANTS
  Names <- MCNames
  Admins <- MCAdmins
  Clients <- MCClients
  Conns <- MCConns
  MaxSecrets = 2
  Troubles <- MCTroubles
  MaxTroubles = 2
INVARIANTS
  RevokedGone
  RetiredIsGone
  AcceptedUntilEnded
  ValidNotEvicted
PROPERTIES
  RevokedStops
  DeadPeerRemoved
CHECK_DEADLOCK FALSE
