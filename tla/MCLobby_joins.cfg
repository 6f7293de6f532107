SPECIFICATION LobbyFairSpec
CONSTANTS
  Users = {u1, u2, u3}
  Nobody = Nobody
  Sockets = {s1}
  MaxConnections = 2
  Codes = {k1}
  Calls = {j1, j2, j3}
  NoLobby = NoLobby
CHECK_DEADLOCK FALSE

  
PROPERTIES
  LobbiesGo
  GhostsExpire
