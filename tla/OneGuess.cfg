SPECIFICATION GameSpec
CONSTANTS
  w = w
  r = r
  p = p
  q = q
  Address = {w, r, p, q}
  Number = {0, 1, 2}
  Warden = w
  Reporter = r
  GameId = 0
  Rosters <- MCRosters
  MaxAccepted = 2
INVARIANT OneGuessPerPlayer
