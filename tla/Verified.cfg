SPECIFICATION AppSpec
CONSTANTS
  None = none
  Chains = {base, sepolia}
  ChainOptions = {base, sepolia}
  Default = sepolia
  Home = base
  Away = sepolia
  People = {ann, bea}
  Accounts = {ann}
  Nominees = {bea, token}
  NoAddress = none
  Creator = ann
  Owners = {bea}
  Receivers = {none, bea}
  Tokens = {link, usdc}
  Link = link
  Usdc = usdc
  Stock = 2
  Funds <- HomeFunds
  MessageAmounts = {1}
  RouterFees = {0, 1}
  MaxMessages = 2
  MaxEdits = 4
  Self = token
  MarketCap = 40
  Tolerance = 10
  ReserveRatio = 4
  Deposits = {7, 9}
  Fees = {0}
  SwapOutputs = {0, 1}
  Amounts = {4}
  MaxReserve = 55
  Caps = {0, 100}
  MaxSubmits = 2
  MaxPurchases = 2
  MaxChanges = 3
  MaxAttempts = 1
  MaxPlayers = 4
  MaxNumber = 4
  MaxPot = 40
  MaxPlaces = 9
  Decimals = 3
  MaxUint = 1500
  MaxSupply = 24
  MaxDeposit = 12
  Ratio = 2
INVARIANT VerifiedWhenSaid
CHECK_DEADLOCK FALSE
