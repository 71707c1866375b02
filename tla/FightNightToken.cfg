SPECIFICATION Spec
CONSTANTS
  Accounts = {a, b}
  Self = Self
  Decimals = 1
  MaxUint = 5000
  MarketCap = 20
  Tolerance = 10
  ReserveRatio = 1
  Deposits = {0, 1, 2, 3, 5, 7}
  Fees = {0, 2}
  SwapOutputs = {0, 4}
  Amounts = {1, 4}
  MaxReserve = 38
INVARIANTS SaleBounded BooksBalance BridgedOnceAtClose
PROPERTY FrozenOnceClosed
CHECK_DEADLOCK FALSE
