SPECIFICATION Spec
CONSTANTS
  o = o
  r = r
  p = p
  Self = Self
  Accounts = {o, r, p}
  Address = {o, r, p, Self}
  Owners = {o}
  Number = {0, 1}
  Lineups <- MCLineups
  Values = {0, 3}
  MaxGames = 2
INVARIANTS NeverSettled Solvent
PROPERTIES PotsLocked
