--------------------------- MODULE ContractProofs ---------------------------
(***************************************************************************)
(* The contracts of the application.  FightNightToken, for every market    *)
(* cap, tolerance, reserve ratio and set of deposits.  The algorithms, for *)
(* inputs of every size: the selection of _populateRankings, the loop of   *)
(* payoutPlayers, and the square root and the purchase of the bonding      *)
(* curve.                                                                  *)
(***************************************************************************)
EXTENDS FightNightToken, Algorithms, InductionLemmas

(***************************************************************************)
(* The sale ends when, and only when, the cap is reached, and its books    *)
(* are kept.  Nothing is assumed of the curve but that a purchase which    *)
(* does not revert is a number that fits its type.                         *)
(***************************************************************************)

(***************************************************************************)
(* The tolerance makes an interval around the cap.                         *)
(***************************************************************************)
LEMMA BoundsTyped ==
  /\ Margin \in Nat
  /\ UpperBound \in Nat
  /\ LowerBound \in Int
  /\ LowerBound <= UpperBound
  /\ BoundsFit => LowerBound \in Nat
<1>1. MarketCap * Tolerance \in Nat
  BY TokenAssumption
<1>2. Margin \in Nat
  BY <1>1 DEF Margin
<1>3. QED
  BY <1>2, TokenAssumption DEF UpperBound, LowerBound, BoundsFit

(***************************************************************************)
(* The inductive invariant.  OpenUntilCapReached needs the first conjunct  *)
(* (a token whose bounds do not fit has never been updated), and           *)
(* BridgedOnceAtClose is what CloseWhenReached may append to.              *)
(***************************************************************************)
SaleInv ==
  /\ TypeOK
  /\ ~BoundsFit => totalSupply = 0
  /\ OpenUntilCapReached
  /\ SupplyWithinCap
  /\ ReserveBacking
  /\ BridgedOnceAtClose

(***************************************************************************)
(* The end of _update, on a supply that the cap admits, leaves the sale    *)
(* open or closes it, whichever that supply asks for.                      *)
(***************************************************************************)
LEMMA CloseIsDecided ==
  ASSUME SaleInv, isTradable, BoundsFit,
         NEW minted \in Nat, minted <= UpperBound,
         NEW swapped \in SwapOutputs,
         CloseWhenReached(minted, swapped), totalSupply' = minted
  PROVE  /\ isTradable' \in BOOLEAN
         /\ usdcBalance' \in Nat
         /\ bridged' \in Seq(Nat)
         /\ OpenUntilCapReached'
         /\ SupplyWithinCap'
         /\ BridgedOnceAtClose'
<1>1. swapped \in Nat
  BY TokenAssumption
<1>2. bridged = <<>> /\ usdcBalance \in Nat
  BY DEF SaleInv, BridgedOnceAtClose, TypeOK
<1>3. CASE minted > LowerBound
  <2>1. /\ isTradable' = FALSE
        /\ usdcBalance' = usdcBalance + swapped
        /\ bridged' = <<usdcBalance + swapped>>
    BY <1>2, <1>3 DEF CloseWhenReached, SwapForUSDC, BridgeFunds
  <2>2. usdcBalance' \in Nat /\ bridged' \in Seq(Nat)
    BY <1>1, <1>2, <2>1
  <2>3. OpenUntilCapReached'
    <3>1. ~(totalSupply' <= LowerBound)
      BY <1>3, BoundsTyped
    <3>2. QED
      BY <2>1, <3>1 DEF OpenUntilCapReached, BoundsFit, LowerBound, Margin
  <2>4. SupplyWithinCap' /\ BridgedOnceAtClose'
    BY <2>1 DEF SupplyWithinCap, BridgedOnceAtClose
  <2>5. QED
    BY Zenon, <2>1, <2>2, <2>3, <2>4
<1>4. CASE ~(minted > LowerBound)
  <2>1. UNCHANGED <<isTradable, usdcBalance, bridged>>
    BY <1>4 DEF CloseWhenReached
  <2>2. QED
    BY <1>2, <1>4, <2>1, BoundsTyped
    DEF SaleInv, TypeOK, OpenUntilCapReached, SupplyWithinCap,
        BridgedOnceAtClose
<1>5. QED
  BY <1>3, <1>4

(***************************************************************************)
(* SaleInv holds at deployment and every transaction keeps it.             *)
(***************************************************************************)
THEOREM SaleInvariant == Spec => []SaleInv
<1>1. Init => SaleInv
  <2> SUFFICES ASSUME Init PROVE SaleInv
    OBVIOUS
  <2>1. TypeOK
    BY CurveAssumption DEF Init, TypeOK
  <2>2. OpenUntilCapReached /\ SupplyWithinCap /\ BridgedOnceAtClose
    BY BoundsTyped
    DEF Init, OpenUntilCapReached, SupplyWithinCap, BridgedOnceAtClose
  <2>3. ReserveBacking
    BY CurveAssumption DEF Init, ReserveBacking
  <2>4. QED
    BY <2>1, <2>2, <2>3 DEF SaleInv, Init
<1>2. SaleInv /\ [Next]_vars => SaleInv'
  <2> SUFFICES ASSUME SaleInv, [Next]_vars
               PROVE  SaleInv'
    OBVIOUS
  <2>1. ASSUME NEW swapped \in SwapOutputs, NEW sender \in Accounts,
               NEW deposit \in Deposits, NEW charge \in Fees,
               Mint(sender, deposit, charge, swapped)
        PROVE  SaleInv'
    <3> DEFINE amount == Purchase(totalSupply, reserveBalance, ReserveRatio,
                                  deposit)
               minted == totalSupply + amount
    <3>1. /\ isTradable
          /\ amount \in 0..MaxUint
          /\ BoundsFit
          /\ WithinMarketCap(amount)
          /\ balances' = [balances EXCEPT ![sender] = @ + amount]
          /\ totalSupply' = minted
          /\ CloseWhenReached(minted, swapped)
          /\ Collect(deposit, charge)
      BY <2>1 DEF Mint
    <3> HIDE DEF amount
    <3>2. amount \in Nat /\ minted \in Nat
      BY <3>1, CurveAssumption DEF SaleInv, TypeOK
    <3>3. minted <= UpperBound
      BY <3>1, <3>2, BoundsTyped DEF WithinMarketCap, SaleInv, TypeOK
    <3>4. /\ isTradable' \in BOOLEAN
          /\ usdcBalance' \in Nat
          /\ bridged' \in Seq(Nat)
          /\ OpenUntilCapReached'
          /\ SupplyWithinCap'
          /\ BridgedOnceAtClose'
      <4> HIDE DEF minted
      <4>1. QED
        BY <3>1, <3>2, <3>3, CloseIsDecided
    <3>5. balances' \in [Holders -> Nat]
      BY <3>1, <3>2 DEF SaleInv, TypeOK, Holders
    <3>6. /\ reserveBalance' \in Nat
          /\ ethBalance' \in Nat
          /\ feesPaid' \in Nat
          /\ ReserveBacking'
      BY <3>1, TokenAssumption, CurveAssumption
      DEF Collect, SaleInv, TypeOK, ReserveBacking
    <3>7. QED
      BY <3>1, <3>2, <3>4, <3>5, <3>6 DEF SaleInv, TypeOK, BoundsFit
  <2>2. ASSUME NEW swapped \in SwapOutputs, NEW from \in Accounts,
               NEW to \in Holders, NEW amount \in Amounts,
               Transfer(from, to, amount, swapped)
        PROVE  SaleInv'
    <3>1. /\ isTradable
          /\ BoundsFit
          /\ amount <= balances[from]
          /\ balances' = [[balances EXCEPT ![from] = @ - amount]
                                   EXCEPT ![to] = @ + amount]
          /\ CloseWhenReached(totalSupply, swapped)
          /\ UNCHANGED <<totalSupply, reserveBalance, ethBalance, feesPaid>>
      BY <2>2 DEF Transfer
    <3>2. totalSupply \in Nat /\ totalSupply <= UpperBound
      BY <3>1 DEF SaleInv, TypeOK, SupplyWithinCap
    <3>3. /\ isTradable' \in BOOLEAN
          /\ usdcBalance' \in Nat
          /\ bridged' \in Seq(Nat)
          /\ OpenUntilCapReached'
          /\ SupplyWithinCap'
          /\ BridgedOnceAtClose'
      BY <3>1, <3>2, CloseIsDecided
    <3>4. balances' \in [Holders -> Nat]
      <4>1. amount \in Nat /\ from \in Holders
        BY TokenAssumption DEF Holders
      <4>2. balances \in [Holders -> Nat]
        BY DEF SaleInv, TypeOK
      <4>3. [balances EXCEPT ![from] = @ - amount] \in [Holders -> Nat]
        BY <3>1, <4>1, <4>2
      <4>4. QED
        BY <3>1, <4>1, <4>3
    <3>5. QED
      BY <3>1, <3>2, <3>3, <3>4 DEF SaleInv, TypeOK, ReserveBacking, BoundsFit
  <2>3. CASE UNCHANGED vars
    BY <2>3
    DEF vars, SaleInv, TypeOK, OpenUntilCapReached, SupplyWithinCap,
        ReserveBacking, BridgedOnceAtClose, BoundsFit
  <2>4. QED
    BY <2>1, <2>2, <2>3 DEF Next
<1>3. QED
  BY <1>1, <1>2, PTL DEF Spec

(***************************************************************************)
(* Balances, supply, reserve and funds never leave their types: no checked *)
(* subtraction of the token would underflow.                               *)
(***************************************************************************)
THEOREM TypeCorrect == Spec => []TypeOK
BY SaleInvariant, PTL DEF SaleInv

(***************************************************************************)
(* mint and transfer are open exactly until the supply has passed the      *)
(* lower bound.                                                            *)
(***************************************************************************)
THEOREM SaleOpenUntilCap == Spec => []OpenUntilCapReached
BY SaleInvariant, PTL DEF SaleInv

(***************************************************************************)
(* The supply stays within the tolerance above the cap.                    *)
(***************************************************************************)
THEOREM SupplyStaysWithinCap == Spec => []SupplyWithinCap
BY SaleInvariant, PTL DEF SaleInv

(***************************************************************************)
(* Both together, as the runs check them: the sale against its cap.        *)
(***************************************************************************)
THEOREM SaleIsBounded == Spec => []SaleBounded
BY SaleOpenUntilCap, SupplyStaysWithinCap, PTL DEF SaleBounded

(***************************************************************************)
(* The reserve of the curve is the initial 10 * DECIMALS, the ETH held and *)
(* the fees paid, for ever: the contract pays ETH to the oracle only.      *)
(***************************************************************************)
THEOREM ReserveIsNeverBacked == Spec => []ReserveBacking
BY SaleInvariant, PTL DEF SaleInv

(***************************************************************************)
(* One holder's balance moves by d, and with it the sum of the balances.   *)
(***************************************************************************)
LEMMA Credited ==
  ASSUME NEW f \in [Holders -> Int], NEW h \in Holders, NEW d \in Int
  PROVE  SumFunctionOnSet([f EXCEPT ![h] = @ + d], Holders)
           = SumFunctionOnSet(f, Holders) + d
<1> DEFINE g == [f EXCEPT ![h] = @ + d]
<1>1. IsFiniteSet(Holders)
  BY TokenAssumption, FS_AddElement DEF Holders
<1>2. /\ g \in [Holders -> Int] /\ g[h] = f[h] + d /\ f[h] \in Int
      /\ \A other \in Holders : other # h => g[other] = f[other]
  OBVIOUS
<1>3. SumFunctionOnSet(f, Holders) \in Int
  BY <1>1, SumType
<1> HIDE DEF g
<1>4. SumFunctionOnSet(g, Holders) = SumFunctionOnSet(f, Holders) + g[h] - f[h]
  BY <1>1, <1>2, SumChange
<1>5. SumFunctionOnSet(g, Holders) = SumFunctionOnSet(f, Holders) + d
  BY <1>2, <1>3, <1>4
<1> QED
  BY <1>5 DEF g

(***************************************************************************)
(* Every token of the supply is held by someone: a mint credits what it    *)
(* adds to the supply, and a transfer, also one to the sender itself,      *)
(* takes from one balance what it adds to the other.                       *)
(***************************************************************************)
THEOREM SupplyIsAlwaysHeld == Spec => []SupplyIsHeld
<1>1. Init => SupplyIsHeld
  <2> SUFFICES ASSUME Init PROVE SupplyIsHeld
    OBVIOUS
  <2>1. IsFiniteSet(Holders)
    BY TokenAssumption, FS_AddElement DEF Holders
  <2>2. \A h \in Holders : balances[h] = 0
    BY DEF Init
  <2> QED
    BY <2>1, <2>2, SumZero DEF Init, SupplyIsHeld
<1>2. SaleInv /\ SupplyIsHeld /\ [Next]_vars => SupplyIsHeld'
  <2> SUFFICES ASSUME SaleInv, SupplyIsHeld, [Next]_vars
               PROVE  SupplyIsHeld'
    OBVIOUS
  <2>0. balances \in [Holders -> Int] /\ totalSupply \in Nat
    BY DEF SaleInv, TypeOK
  <2>1. ASSUME NEW swapped \in SwapOutputs, NEW sender \in Accounts,
               NEW deposit \in Deposits, NEW charge \in Fees,
               Mint(sender, deposit, charge, swapped)
        PROVE  SupplyIsHeld'
    <3> DEFINE amount == Purchase(totalSupply, reserveBalance, ReserveRatio,
                                  deposit)
    <3>1. /\ amount \in 0..MaxUint
          /\ balances' = [balances EXCEPT ![sender] = @ + amount]
          /\ totalSupply' = totalSupply + amount
      BY <2>1 DEF Mint
    <3> HIDE DEF amount
    <3>2. amount \in Int /\ sender \in Holders
      BY <3>1, CurveAssumption DEF Holders
    <3>3. SumFunctionOnSet(balances', Holders) = SumFunctionOnSet(balances, Holders) + amount
      BY Zenon, <2>0, <3>1, <3>2, Credited
    <3> QED
      BY <3>1, <3>3 DEF SupplyIsHeld, Holders
  <2>2. ASSUME NEW swapped \in SwapOutputs, NEW from \in Accounts,
               NEW to \in Holders, NEW amount \in Amounts,
               Transfer(from, to, amount, swapped)
        PROVE  SupplyIsHeld'
    <3> DEFINE debited == [balances EXCEPT ![from] = @ + (-amount)]
    <3>1. amount \in Int /\ -amount \in Int /\ from \in Holders
      BY TokenAssumption DEF Holders
    <3>2. balances' = [debited EXCEPT ![to] = @ + amount] /\ totalSupply' = totalSupply
      BY Zenon, <2>0, <2>2, <3>1 DEF Transfer
    <3>3. debited \in [Holders -> Int]
      BY <2>0, <3>1
    <3>4. SumFunctionOnSet(debited, Holders) = SumFunctionOnSet(balances, Holders) + (-amount)
      BY Zenon, <2>0, <3>1, Credited
    <3> HIDE DEF debited
    <3>5. SumFunctionOnSet(balances', Holders) = SumFunctionOnSet(debited, Holders) + amount
      BY Zenon, <3>1, <3>2, <3>3, Credited
    <3> QED
      BY <2>0, <3>1, <3>2, <3>4, <3>5 DEF SupplyIsHeld, Holders
  <2>3. CASE UNCHANGED vars
    BY <2>3 DEF vars, SupplyIsHeld, Holders
  <2> QED
    BY <2>1, <2>2, <2>3 DEF Next
<1> QED
  BY <1>1, <1>2, SaleInvariant, PTL DEF Spec

(***************************************************************************)
(* Both books, as the runs check them.                                     *)
(***************************************************************************)
THEOREM BooksAlwaysBalance == Spec => []BooksBalance
BY SupplyIsAlwaysHeld, ReserveIsNeverBacked, PTL DEF BooksBalance

(***************************************************************************)
(* The bridge is called once, with all the USDC, at the close.             *)
(***************************************************************************)
THEOREM BridgedOnce == Spec => []BridgedOnceAtClose
BY SaleInvariant, PTL DEF SaleInv

(***************************************************************************)
(* A token created with a tolerance for which a bound does not fit (above  *)
(* 100 percent the lower one underflows) never sells anything and never    *)
(* calls the bridge, although its constructor accepted the tolerance.      *)
(***************************************************************************)
THEOREM UnfitTokenNeverSells ==
  Spec => [](~BoundsFit => isTradable /\ totalSupply = 0 /\ bridged = <<>>)
<1>1. SaleInv => (~BoundsFit => isTradable /\ totalSupply = 0 /\ bridged = <<>>)
  BY DEF SaleInv, OpenUntilCapReached, BridgedOnceAtClose
<1>2. QED
  BY <1>1, SaleInvariant, PTL

(***************************************************************************)
(* Nothing of a closed token changes again.                                *)
(***************************************************************************)
THEOREM ClosedIsFrozen == Spec => FrozenOnceClosed
<1>1. [Next]_vars => [isTradable]_vars
  BY DEF Next, Mint, Transfer
<1>2. QED
  BY <1>1, PTL DEF Spec, FrozenOnceClosed
-----------------------------------------------------------------------------
(***************************************************************************)
(* The algorithms.  A recursive function is taken apart by showing that    *)
(* some table satisfies its equation, and by first-order induction over    *)
(* that table (InductionLemmas).                                           *)
(***************************************************************************)

\* The loop of payoutPlayers before its first round, and after it: the whole
\* pot is off the balance, and the loop has left by break.
Unpaid(amount) == [balance |-> amount, sent |-> <<>>, broken |-> FALSE]
WrittenOff == [balance |-> 0, sent |-> <<>>, broken |-> TRUE]

\* f gives the loop after each of its first m rounds.
Rounds(f, m, amount) ==
  f = [i \in 0..m |-> IF i = 0 THEN Unpaid(amount) ELSE PayRound(amount, i - 1, f[i - 1])]

(***************************************************************************)
(* The first round takes the whole pot off the balance and breaks before   *)
(* it sends anything; a broken loop stays as it is.                        *)
(***************************************************************************)
LEMMA FirstRoundBreaks ==
  ASSUME NEW amount \in Nat
  PROVE  /\ PayRound(amount, 0, Unpaid(amount)) = WrittenOff
         /\ \A i \in Nat : PayRound(amount, i, WrittenOff) = WrittenOff
<1>1. 2^0 = 1 /\ amount \div 1 = amount
  OBVIOUS
<1>2. PayRound(amount, 0, Unpaid(amount)) = WrittenOff
  <2>1. ASSUME NEW s, NEW p, NEW i, ~s.broken, ~(s.balance - p \div 2^i > 0)
        PROVE  PayRound(p, i, s)
                 = [balance |-> s.balance - p \div 2^i, sent |-> s.sent, broken |-> TRUE]
    BY <2>1 DEF PayRound
  <2> DEFINE s == Unpaid(amount)
  <2>2. ~s.broken /\ s.sent = <<>> /\ s.balance = amount
    BY DEF Unpaid
  <2> HIDE DEF s
  <2>3. s.balance - amount \div 2^0 = 0 /\ ~(s.balance - amount \div 2^0 > 0)
    BY <1>1, <2>2
  <2>4. PayRound(amount, 0, s)
          = [balance |-> s.balance - amount \div 2^0, sent |-> s.sent, broken |-> TRUE]
    BY <2>1, <2>2, <2>3, Zenon
  <2>5. PayRound(amount, 0, s) = WrittenOff
    BY <2>2, <2>3, <2>4, Zenon DEF WrittenOff
  <2> QED
    BY <2>5 DEF s
<1>3. \A i \in Nat : PayRound(amount, i, WrittenOff) = WrittenOff
  BY DEF PayRound, WrittenOff
<1> QED
  BY <1>2, <1>3

(***************************************************************************)
(* Whatever the number of rounds, the loop ends as its first round left    *)
(* it.                                                                     *)
(***************************************************************************)
LEMMA RoundsEnd ==
  ASSUME NEW m \in Nat, NEW amount \in Nat, NEW f, Rounds(f, m, amount)
  PROVE  f[m] = IF m = 0 THEN Unpaid(amount) ELSE WrittenOff
<1> DEFINE T == {i \in Nat : i + 1 <= m => f[i + 1] = WrittenOff}
<1>1. /\ f[0] = Unpaid(amount)
      /\ \A i \in 1..m : f[i] = PayRound(amount, i - 1, f[i - 1])
  BY DEF Rounds
<1>2. 0 \in T
  BY <1>1, FirstRoundBreaks
<1>3. \A i \in Nat : i \in T => i + 1 \in T
  BY <1>1, FirstRoundBreaks
<1>4. \A i \in Nat : i \in T
  <2> HIDE DEF T
  <2> QED BY <1>2, <1>3, NatInductive
<1>5. CASE m = 0
  BY <1>1, <1>5
<1>6. CASE m # 0
  <2>1. m - 1 \in T
    BY <1>4, <1>6
  <2> QED
    BY <1>6, <2>1
<1> QED
  BY <1>5, <1>6

(***************************************************************************)
(* payoutPlayers as a whole: with two places or more the balance is        *)
(* written off, with fewer the loop never runs.                            *)
(***************************************************************************)
LEMMA SettleWritesOff ==
  ASSUME NEW amount \in Nat, NEW n \in Nat
  PROVE  Settle(amount, n) = IF n < 2 THEN Unpaid(amount) ELSE WrittenOff
<1> DEFINE m == n \div 2
           f == [i \in 0..m |-> IF i = 0 THEN Unpaid(amount) ELSE WrittenOff]
           g == CHOOSE h : Rounds(h, m, amount)
<1>1. m \in Nat /\ (m = 0 <=> n < 2)
  OBVIOUS
<1>2. Rounds(f, m, amount)
  BY <1>1, FirstRoundBreaks DEF Rounds
<1>3. Rounds(g, m, amount)
  BY <1>2
<1>4. Settle(amount, n) = g[m]
  BY DEF Settle, Rounds, Unpaid
<1> QED
  BY <1>1, <1>3, <1>4, RoundsEnd

(***************************************************************************)
(* A loop that has sent nothing has sent 0 in all.                         *)
(***************************************************************************)
LEMMA NothingSent ==
  ASSUME NEW s, s.sent = <<>>
  PROVE  TotalSent(s) = 0
<1> DEFINE IsTotal(h) == h = [i \in 0..Len(s.sent) |-> IF i = 0 THEN 0 ELSE h[i - 1] + s.sent[i]]
           g == CHOOSE h : IsTotal(h)
<1>1. Len(s.sent) = 0
  OBVIOUS
<1>2. IsTotal([i \in 0..0 |-> 0])
  BY <1>1
<1>3. IsTotal(g)
  BY <1>2
<1>4. TotalSent(s) = g[0]
  BY <1>1 DEF TotalSent
<1> QED
  BY <1>1, <1>3, <1>4
-----------------------------------------------------------------------------
\* y is the square root of x, rounded down.
IsRoot(y, x) == y * y <= x /\ x < (y + 1) * (y + 1)

(***************************************************************************)
(* Every natural number has a rounded root.                                *)
(***************************************************************************)
LEMMA RootExists ==
  ASSUME NEW x \in Nat
  PROVE  \E y \in Nat : IsRoot(y, x)
<1> DEFINE T == {n \in Nat : x < (n + 1) * (n + 1)}
<1>1. x \in T
  BY x < (x + 1) * (x + 1)
<1>2. T \subseteq Nat /\ T # {}
  BY Zenon, <1>1
<1> HIDE DEF T
<1>3. PICK n \in T : \A m \in T : n <= m
  BY Zenon, <1>2, LeastNatural
<1> USE DEF T
<1>4. CASE n = 0
  BY <1>4 DEF IsRoot
<1>5. CASE n # 0
  <2>1. n - 1 \in Nat /\ n - 1 \notin T
    BY <1>3, <1>5
  <2>2. ~ (x < ((n - 1) + 1) * ((n - 1) + 1))
    BY <2>1
  <2>3. (n - 1) + 1 = n
    OBVIOUS
  <2> QED
    BY <2>2, <2>3 DEF IsRoot
<1> QED
  BY <1>4, <1>5

\* Newton's step
Newton(x, y) == (x \div y + y) \div 2

(***************************************************************************)
(* One step of Newton's iteration from y: it never falls below the root,   *)
(* and it goes down exactly while y is above the root.                     *)
(***************************************************************************)
LEMMA NewtonStep ==
  ASSUME NEW x \in Nat, NEW y \in 1..x
  PROVE  /\ Newton(x, y) \in Nat \ {0}
         /\ x < (Newton(x, y) + 1) * (Newton(x, y) + 1)
         /\ Newton(x, y) >= y <=> y * y <= x
<1> DEFINE q == x \div y
           z == Newton(x, y)
<1>1. /\ q \in Nat /\ q * y <= x /\ x < (q + 1) * y
  OBVIOUS
<1> HIDE DEF q
<1>2. z \in Nat /\ 2 * z <= q + y /\ q + y < 2 * z + 2
  BY <1>1 DEF Newton, q
<1> HIDE DEF z
<1>3. q >= 1
  BY <1>1
<1>4. z >= 1
  BY <1>1, <1>2, <1>3
<1>5. x < (z + 1) * (z + 1)
  <2> DEFINE a == q + 1
             b == z + 1
  <2>1. a \in Nat /\ b \in Nat /\ a + y <= 2 * b /\ x < a * y
    BY <1>1, <1>2
  <2> HIDE DEF a, b
  <2>2. (a + y) * (a + y) <= (2 * b) * (2 * b)
    BY <2>1
  <2>3. 4 * (a * y) <= (a + y) * (a + y)
    BY <2>1
  <2>4. (2 * b) * (2 * b) = 4 * (b * b)
    BY <2>1
  <2>5. x < b * b
    BY <2>1, <2>2, <2>3, <2>4
  <2> QED
    BY <2>5 DEF b
<1>6. z >= y <=> y * y <= x
  <2>1. ASSUME z >= y PROVE y * y <= x
    <3>1. q >= y
      BY <1>1, <1>2, <2>1
    <3>2. y * y <= q * y
      BY <1>1, <3>1
    <3> QED
      BY <1>1, <3>2
  <2>2. ASSUME y * y <= x PROVE z >= y
    <3>1. y * y < (q + 1) * y
      BY <1>1, <2>2
    <3>2. y < q + 1
      BY <1>1, <3>1
    <3> QED
      BY <1>1, <1>2, <3>2
  <2> QED
    BY <2>1, <2>2
<1> QED
  BY <1>2, <1>4, <1>5, <1>6 DEF z

(***************************************************************************)
(* A number has one rounded root.                                          *)
(***************************************************************************)
LEMMA RootUnique ==
  ASSUME NEW x \in Nat, NEW y \in Nat, NEW z \in Nat, IsRoot(y, x), IsRoot(z, x)
  PROVE  y = z
<1>1. ASSUME NEW a \in Nat, NEW b \in Nat, a * a <= x, x < (b + 1) * (b + 1)
      PROVE  a <= b
  <2>1. a * a < (b + 1) * (b + 1)
    BY <1>1
  <2>2. ASSUME b + 1 <= a PROVE FALSE
    <3>1. (b + 1) * (b + 1) <= a * a
      BY <2>2
    <3> QED
      BY <2>1, <3>1
  <2> QED
    BY <2>2
<1> QED
  BY <1>1 DEF IsRoot

\* h is a table of what _sqrt returns from each start: it goes on while the
\* next value is smaller.
Iterates(h, x) ==
  h = [y \in 1..x |-> IF Newton(x, y) < y THEN h[Newton(x, y)] ELSE y]

(***************************************************************************)
(* There is such a table: the recursion of _sqrt is well founded.          *)
(***************************************************************************)
LEMMA IterationExists ==
  ASSUME NEW x \in Nat
  PROVE  \E h : Iterates(h, x)
<1>1. PICK r \in Nat : IsRoot(r, x)
  BY RootExists
<1> DEFINE h == [y \in 1..x |-> IF x < (y + 1) * (y + 1) THEN r ELSE y]
<1>2. ASSUME NEW y \in 1..x
      PROVE  h[y] = IF Newton(x, y) < y THEN h[Newton(x, y)] ELSE y
  <2> DEFINE z == Newton(x, y)
  <2>1. z \in Nat \ {0} /\ x < (z + 1) * (z + 1) /\ (z >= y <=> y * y <= x)
    BY NewtonStep
  <2> HIDE DEF z
  <2>2. CASE z < y
    <3>1. z \in 1..x /\ h[z] = r
      BY <2>1, <2>2
    <3>2. ~ (y * y <= x)
      BY <2>1, <2>2
    <3>3. x < (y + 1) * (y + 1)
      BY <3>2
    <3> QED
      BY <2>2, <3>1, <3>3 DEF z
  <2>3. CASE ~ (z < y)
    <3>1. y * y <= x
      BY <2>1, <2>3
    <3>2. h[y] = y
      <4>1. CASE x < (y + 1) * (y + 1)
        BY <1>1, <3>1, <4>1, RootUnique DEF IsRoot
      <4> QED
        BY <4>1
    <3> QED
      BY <2>3, <3>2 DEF z
  <2> QED
    BY <2>2, <2>3
<1>3. h = [y \in 1..x |-> IF Newton(x, y) < y THEN h[Newton(x, y)] ELSE y]
  BY <1>2
<1> QED
  BY Zenon, <1>3 DEF Iterates

(***************************************************************************)
(* The loop of _sqrt, started at x, ends in the rounded root of x.         *)
(***************************************************************************)
LEMMA IterationEnds ==
  ASSUME NEW x \in Nat \ {0}, NEW h, Iterates(h, x)
  PROVE  h[x] \in Nat /\ IsRoot(h[x], x)
<1> DEFINE B == {y \in 1..x : x < (y + 1) * (y + 1) /\ ~ (h[y] \in Nat /\ IsRoot(h[y], x))}
<1>1. B = {}
  <2> SUFFICES ASSUME B # {}
               PROVE  FALSE
    OBVIOUS
  <2>1. B \subseteq Nat
    OBVIOUS
  <2> HIDE DEF B
  <2>2. PICK y \in B : \A m \in B : y <= m
    BY Zenon, <2>1, LeastNatural
  <2> USE DEF B
  <2> DEFINE z == Newton(x, y)
  <2>3. y \in 1..x /\ x < (y + 1) * (y + 1) /\ ~ (h[y] \in Nat /\ IsRoot(h[y], x))
    OBVIOUS
  <2>4. z \in Nat \ {0} /\ x < (z + 1) * (z + 1) /\ (z >= y <=> y * y <= x)
    BY <2>3, NewtonStep
  <2>5. h[y] = IF z < y THEN h[z] ELSE y
    BY SMTT(30), <2>3 DEF Iterates
  <2> HIDE DEF z
  <2>6. CASE z < y
    <3>1. z \in 1..x /\ z \notin B
      BY <2>2, <2>3, <2>4, <2>6
    <3>2. h[z] \in Nat /\ IsRoot(h[z], x)
      BY <2>4, <3>1
    <3> QED
      BY <2>3, <2>5, <2>6, <3>2
  <2>7. CASE ~ (z < y)
    BY <2>3, <2>4, <2>5, <2>7 DEF IsRoot
  <2> QED
    BY <2>6, <2>7
<1>2. x \in 1..x /\ x < (x + 1) * (x + 1)
  OBVIOUS
<1> QED
  BY <1>1, <1>2

(***************************************************************************)
(* _sqrt returns the rounded square root of every natural number.          *)
(***************************************************************************)
THEOREM SqrtIsRoot ==
  ASSUME NEW x \in Nat
  PROVE  Sqrt(x) \in Nat /\ IsRoot(Sqrt(x), x)
<1>1. CASE x = 0
  BY <1>1 DEF Sqrt, IsRoot
<1>2. CASE x # 0
  <2> DEFINE g == CHOOSE h : Iterates(h, x)
  <2>1. Iterates(g, x)
    BY IterationExists
  <2>2. Sqrt(x) = g[x]
    BY <1>2 DEF Sqrt, Iterates, Newton
  <2> HIDE DEF g
  <2> QED
    BY <1>2, <2>1, <2>2, IterationEnds
<1> QED
  BY <1>1, <1>2

(***************************************************************************)
(* _sqrt is monotone.                                                      *)
(***************************************************************************)
LEMMA SqrtMonotone ==
  ASSUME NEW x \in Nat, NEW y \in Nat, x <= y
  PROVE  Sqrt(x) <= Sqrt(y)
<1> DEFINE a == Sqrt(x)
           b == Sqrt(y)
<1>1. a \in Nat /\ b \in Nat /\ a * a <= x /\ y < (b + 1) * (b + 1)
  BY SqrtIsRoot DEF IsRoot
<1> HIDE DEF a, b
<1>2. ASSUME b + 1 <= a PROVE FALSE
  <2>1. (b + 1) * (b + 1) <= a * a
    BY <1>1, <1>2
  <2> QED
    BY <1>1, <2>1
<1>3. a <= b
  BY <1>1, <1>2
<1> QED
  BY <1>3 DEF a, b

(***************************************************************************)
(* Integer division is monotone in the dividend.                           *)
(***************************************************************************)
LEMMA DivMonotone ==
  ASSUME NEW a \in Nat, NEW b \in Nat, a <= b, NEW d \in Nat \ {0}
  PROVE  a \div d \in Nat /\ a \div d <= b \div d
<1> DEFINE p == a \div d
           q == b \div d
<1>1. p \in Nat /\ q \in Nat /\ p * d <= a /\ b < (q + 1) * d
  OBVIOUS
<1> HIDE DEF p, q
<1>2. ASSUME q + 1 <= p PROVE FALSE
  <2>1. (q + 1) * d <= p * d
    BY <1>1, <1>2
  <2> QED
    BY <1>1, <2>1
<1>3. p <= q
  BY <1>1, <1>2
<1> QED
  BY <1>1, <1>3 DEF p, q

(***************************************************************************)
(* Products of natural numbers are monotone.                               *)
(***************************************************************************)
LEMMA ProductMonotone ==
  ASSUME NEW a \in Nat, NEW b \in Nat, NEW c \in Nat, NEW d \in Nat, a <= b, c <= d
  PROVE  a * c \in Nat /\ a * c <= b * d
<1>1. a * c <= b * c
  OBVIOUS
<1>2. b * c <= b * d
  OBVIOUS
<1> QED
  BY <1>1, <1>2

(***************************************************************************)
(* The price of the curve is a natural number, and its value grows with    *)
(* the supply.                                                             *)
(***************************************************************************)
LEMMA CurveMonotone ==
  ASSUME NEW s \in Nat, NEW t \in Nat, s <= t
  PROVE  /\ NewPrice(s) \in Nat
         /\ CurveValue(s, Ratio) \in Nat
         /\ CurveValue(s, Ratio) <= CurveValue(t, Ratio)
<1> DEFINE A(n) == (n * n) \div Decimals
           B(n) == n \div Decimals
<1>0. Decimals \in Nat \ {0} /\ Ratio \in Nat
  BY CurveAssumption, InputAssumption
<1>1. s * s \in Nat /\ t * t \in Nat /\ s * s <= t * t
  BY ProductMonotone
<1>2. A(s) \in Nat /\ A(t) \in Nat /\ A(s) <= A(t)
  BY <1>0, <1>1, DivMonotone
<1>3. B(s) \in Nat /\ B(t) \in Nat /\ B(s) <= B(t)
  BY <1>0, DivMonotone
<1> HIDE DEF A, B
<1>4. /\ A(s) * B(s) \in Nat /\ A(t) * B(t) \in Nat
      /\ A(s) * B(s) <= A(t) * B(t)
  BY <1>2, <1>3, ProductMonotone
<1>5. NewPrice(s) \in Nat /\ NewPrice(t) \in Nat /\ NewPrice(s) <= NewPrice(t)
  BY <1>4 DEF A, B, NewPrice
<1>6. /\ Sqrt(NewPrice(s)) \in Nat /\ Sqrt(NewPrice(t)) \in Nat
      /\ Sqrt(NewPrice(s)) <= Sqrt(NewPrice(t))
  BY <1>5, SqrtIsRoot, SqrtMonotone
<1>7. /\ Sqrt(NewPrice(s)) * Ratio \in Nat
      /\ Sqrt(NewPrice(s)) * Ratio <= Sqrt(NewPrice(t)) * Ratio
  BY <1>0, <1>6, ProductMonotone
<1> QED
  BY <1>5, <1>7 DEF CurveValue
-----------------------------------------------------------------------------
\* What the enumerated inputs range over.
InputsTyped ==
  /\ guesses \in Seq(0..MaxNumber) /\ final \in Nat
  /\ pot \in Nat /\ places \in Nat
  /\ supply \in Nat /\ reserve \in Nat

(***************************************************************************)
(* The inputs stay in their ranges.                                        *)
(***************************************************************************)
THEOREM InputsAreTyped == EveryInput => []InputsTyped
<1> USE InputAssumption, CurveAssumption
<1>1. FirstInput => InputsTyped
  BY DEF FirstInput, InputsTyped
<1>2. InputsTyped /\ [NextInput]_inputs => InputsTyped'
  <2> SUFFICES ASSUME InputsTyped, [NextInput]_inputs
               PROVE  InputsTyped'
    OBVIOUS
  <2>1. ASSUME NEW guess \in 0..MaxNumber, Join(guess),
               UNCHANGED <<final, pot, places, supply, reserve>>
        PROVE  InputsTyped'
    BY <2>1 DEF Join, InputsTyped
  <2>2. CASE Clear /\ UNCHANGED <<final, pot, places, supply, reserve>>
    BY <2>2 DEF Clear, InputsTyped
  <2>3. CASE NextPot /\ UNCHANGED <<final, guesses, supply, reserve>>
    BY <2>3 DEF NextPot, InputsTyped
  <2>4. CASE (NextSupply \/ NextReserve) /\ UNCHANGED <<final, guesses, pot, places>>
    BY <2>4 DEF NextSupply, NextReserve, InputsTyped
  <2>5. CASE UNCHANGED inputs
    BY <2>5 DEF inputs, InputsTyped
  <2> QED
    BY <2>1, <2>2, <2>3, <2>4, <2>5 DEF NextInput
<1> QED
  BY <1>1, <1>2, PTL DEF EveryInput

(***************************************************************************)
(* payoutPlayers sends nothing, whatever the pot and however many places   *)
(* the ranking has (NobodyIsPaid), for every bound on both.                *)
(***************************************************************************)
THEOREM NobodyIsEverPaid == EveryInput => []NobodyIsPaid
<1>1. InputsTyped => NobodyIsPaid
  <2> SUFFICES ASSUME InputsTyped PROVE NobodyIsPaid
    OBVIOUS
  <2>1. pot \in Nat /\ places \in Nat
    BY DEF InputsTyped
  <2>2. Settle(pot, places) = IF places < 2 THEN Unpaid(pot) ELSE WrittenOff
    BY <2>1, SettleWritesOff
  <2>3. Settle(pot, places).sent = <<>>
    BY <2>2 DEF Unpaid, WrittenOff
  <2>4. Settle(pot, places).balance = IF places >= 2 THEN 0 ELSE pot
    BY <2>1, <2>2 DEF Unpaid, WrittenOff
  <2>5. TotalSent(Settle(pot, places)) = 0
    BY SMTT(30), <2>3, NothingSent
  <2> QED
    BY <2>4, <2>5 DEF NobodyIsPaid
<1> QED
  BY <1>1, InputsAreTyped, PTL

(***************************************************************************)
(* The bonding curve is right for every supply, reserve and width of       *)
(* integers: _sqrt returns rounded roots, and a larger deposit never buys  *)
(* fewer tokens (_calculatePurchase).                                      *)
(***************************************************************************)
THEOREM CurveIsSound == EveryInput => []CurveSound
<1>1. InputsTyped => CurveSound
  <2> SUFFICES ASSUME InputsTyped PROVE CurveSound
    OBVIOUS
  <2>0. supply \in Nat /\ reserve \in Nat /\ MaxUint \in Nat
    BY CurveAssumption DEF InputsTyped
  <2>1. ASSUME NEW deposit \in 0..MaxDeposit
        PROVE  IsRoot(Sqrt(NewPrice(supply + deposit)), NewPrice(supply + deposit))
    <3>1. supply + deposit \in Nat
      BY <2>0, InputAssumption
    <3>2. NewPrice(supply + deposit) \in Nat
      BY <3>1, CurveMonotone
    <3> QED
      BY <3>2, SqrtIsRoot
  <2>2. ASSUME NEW d1 \in 1..MaxDeposit, NEW d2 \in 1..MaxDeposit, d1 <= d2,
               MayPurchase(supply, reserve, Ratio, d1),
               MayPurchase(supply, reserve, Ratio, d2)
        PROVE  /\ Purchase(supply, reserve, Ratio, d1) \in 0..MaxUint
               /\ Purchase(supply, reserve, Ratio, d1)
                    <= Purchase(supply, reserve, Ratio, d2)
    <3> DEFINE v1 == CurveValue(supply + d1, Ratio)
               v2 == CurveValue(supply + d2, Ratio)
    <3>1. /\ supply + d1 \in Nat /\ supply + d2 \in Nat
          /\ supply + d1 <= supply + d2 /\ supply + d2 <= supply + d2
      BY <2>0, <2>2, InputAssumption
    <3>2. v1 \in Nat /\ v2 \in Nat /\ v1 <= v2
      BY <3>1, CurveMonotone
    <3>3. v1 <= MaxUint /\ reserve <= v1
      BY <2>2 DEF MayPurchase
    <3> HIDE DEF v1, v2
    <3>4. v1 - reserve \in 0..MaxUint /\ v1 - reserve <= v2 - reserve
      BY <2>0, <3>2, <3>3
    <3> QED
      BY <3>4 DEF v1, v2, Purchase
  <2> QED
    BY <2>1, <2>2 DEF CurveSound, IsRoot
<1> QED
  BY <1>1, InputsAreTyped, PTL
-----------------------------------------------------------------------------
(***************************************************************************)
(* The order the ranking is meant to have: by decreasing distance, then by *)
(* position. Before are those ahead of j, and PlaceOf is its place in that *)
(* order. Positive are the players that are off; Served are those of them  *)
(* that have one of the first i places; Marked is the array of distances   *)
(* when the served ones are crossed out.                                   *)
(***************************************************************************)
Ahead(d, j, k) == d[j] > d[k] \/ (d[j] = d[k] /\ j < k)
Before(d, n, j) == {k \in 1..n : Ahead(d, k, j)}
PlaceOf(d, n, j) == 1 + Cardinality(Before(d, n, j))
Positive(d, n) == {k \in 1..n : d[k] > 0}
Served(d, n, i) == {k \in Positive(d, n) : PlaceOf(d, n, k) <= i}
Marked(d, n, i) == [k \in 1..n |-> IF k \in Served(d, n, i) THEN 0 ELSE d[k]]

(***************************************************************************)
(* A place is a positive natural number.                                   *)
(***************************************************************************)
LEMMA PlaceType ==
  ASSUME NEW n \in Nat, NEW d, NEW j \in 1..n
  PROVE  /\ PlaceOf(d, n, j) \in Nat
         /\ PlaceOf(d, n, j) >= 1
         /\ IsFiniteSet(Before(d, n, j))
         /\ Cardinality(Before(d, n, j)) \in Nat
<1>1. IsFiniteSet(1..n) /\ Before(d, n, j) \in SUBSET (1..n)
  BY FS_Interval DEF Before
<1>2. IsFiniteSet(Before(d, n, j))
  BY <1>1, FS_Subset
<1>3. Cardinality(Before(d, n, j)) \in Nat
  BY <1>2, FS_CardinalityType
<1> QED
  BY <1>2, <1>3 DEF PlaceOf

(***************************************************************************)
(* Who is ahead has the smaller place.                                     *)
(***************************************************************************)
LEMMA AheadPlaces ==
  ASSUME NEW n \in Nat, NEW d \in [1..n -> Nat], NEW j \in 1..n, NEW k \in 1..n,
         Ahead(d, j, k)
  PROVE  PlaceOf(d, n, j) < PlaceOf(d, n, k)
<1> DEFINE A == Before(d, n, j)
           B == Before(d, n, k)
<1>1. A \in SUBSET B
  BY DEF Before, Ahead
<1>2. j \in B /\ j \notin A
  BY DEF Before, Ahead
<1>3. /\ IsFiniteSet(B) /\ Cardinality(A) \in Nat /\ Cardinality(B) \in Nat
  BY PlaceType
<1> HIDE DEF A, B
<1>4. Cardinality(A) <= Cardinality(B) /\ Cardinality(A) # Cardinality(B)
  BY Zenon, <1>1, <1>2, <1>3, FS_Subset
<1>5. 1 + Cardinality(A) < 1 + Cardinality(B)
  BY <1>3, <1>4
<1> QED
  BY <1>5 DEF A, B, PlaceOf

(***************************************************************************)
(* No two players share a place, and places tell who is ahead.             *)
(***************************************************************************)
LEMMA PlacesOrder ==
  ASSUME NEW n \in Nat, NEW d \in [1..n -> Nat], NEW j \in 1..n, NEW k \in 1..n
  PROVE  /\ PlaceOf(d, n, j) = PlaceOf(d, n, k) => j = k
         /\ PlaceOf(d, n, j) < PlaceOf(d, n, k) => Ahead(d, j, k)
<1>1. j = k \/ Ahead(d, j, k) \/ Ahead(d, k, j)
  BY DEF Ahead
<1>2. /\ Ahead(d, j, k) => PlaceOf(d, n, j) < PlaceOf(d, n, k)
      /\ Ahead(d, k, j) => PlaceOf(d, n, k) < PlaceOf(d, n, j)
  BY AheadPlaces
<1>3. PlaceOf(d, n, j) \in Nat /\ PlaceOf(d, n, k) \in Nat
  BY PlaceType
<1> QED
  BY <1>1, <1>2, <1>3

(***************************************************************************)
(* The inner loop of _populateRankings finds the first maximum of the      *)
(* array, and stays with the first index when all distances are 0.         *)
(***************************************************************************)
LEMMA MaximumFound ==
  ASSUME NEW n \in Nat, NEW d \in [1..n -> Nat]
  PROVE  /\ Positive(d, n) # {} => MaxIndex(d, n) \in FirstMaxima(d, n)
         /\ Positive(d, n) = {} => MaxIndex(d, n) = 1
<1>1. ASSUME Positive(d, n) # {}
      PROVE  FirstMaxima(d, n) # {}
  <2> DEFINE T == {PlaceOf(d, n, k) : k \in Positive(d, n)}
  <2>1. T \subseteq Nat /\ T # {}
    BY <1>1, PlaceType DEF Positive
  <2> HIDE DEF T
  <2>2. PICK p \in T : \A m \in T : p <= m
    BY Zenon, <2>1, LeastNatural
  <2> USE DEF T
  <2>3. PICK j \in Positive(d, n) : PlaceOf(d, n, j) = p
    OBVIOUS
  <2>4. j \in 1..n /\ d[j] > 0
    BY <2>3 DEF Positive
  <2>5. ASSUME NEW k \in 1..n
        PROVE  d[k] < d[j] \/ (d[k] = d[j] /\ j <= k)
    <3>1. CASE d[k] > 0
      <4>1. PlaceOf(d, n, j) <= PlaceOf(d, n, k)
        BY <2>2, <2>3, <3>1 DEF Positive
      <4>2. ~Ahead(d, k, j)
        <5>1. Ahead(d, k, j) => PlaceOf(d, n, k) < PlaceOf(d, n, j)
          BY Zenon, <2>4, <3>1, AheadPlaces
        <5>2. PlaceOf(d, n, k) \in Nat /\ PlaceOf(d, n, j) \in Nat
          BY Zenon, <2>4, <3>1, PlaceType
        <5> QED
          BY <4>1, <5>1, <5>2
      <4> QED
        BY <2>4, <4>2 DEF Ahead
    <3>2. CASE ~(d[k] > 0)
      BY <2>4, <3>2
    <3> QED
      BY <3>1, <3>2
  <2> QED
    BY <2>4, <2>5 DEF FirstMaxima
<1>2. ASSUME Positive(d, n) = {}
      PROVE  FirstMaxima(d, n) = {}
  BY <1>2 DEF Positive, FirstMaxima
<1> QED
  BY <1>1, <1>2 DEF MaxIndex

(***************************************************************************)
(* When the first i places are crossed out, the first maximum that is left *)
(* has exactly the served players before it.                               *)
(***************************************************************************)
LEMMA NextMaximum ==
  ASSUME NEW n \in Nat, NEW d \in [1..n -> Nat], NEW i \in Nat,
         ~(Positive(d, n) \subseteq Served(d, n, i)),
         NEW j \in FirstMaxima(Marked(d, n, i), n)
  PROVE  j \in Positive(d, n) /\ Before(d, n, j) = Served(d, n, i)
<1> DEFINE a == Marked(d, n, i)
           S == Served(d, n, i)
<1>1. /\ j \in 1..n /\ a[j] > 0
      /\ \A k \in 1..n : a[k] < a[j] \/ (a[k] = a[j] /\ j <= k)
  BY DEF FirstMaxima
<1>2. \A k \in 1..n : a[k] = IF k \in S THEN 0 ELSE d[k]
  BY DEF Marked
<1> HIDE DEF a
<1>3. j \notin S /\ a[j] = d[j] /\ d[j] > 0
  BY <1>1, <1>2
<1>4. j \in Positive(d, n) /\ ~(PlaceOf(d, n, j) <= i)
  BY <1>1, <1>3 DEF Positive, Served
<1>5. ASSUME NEW k \in Before(d, n, j)
      PROVE  k \in S
  <2>1. k \in 1..n /\ Ahead(d, k, j)
    BY DEF Before
  <2>2. ASSUME k \notin S PROVE FALSE
    BY <1>1, <1>2, <1>3, <2>1, <2>2 DEF Ahead
  <2> QED
    BY <2>2
<1>6. ASSUME NEW k \in S
      PROVE  k \in Before(d, n, j)
  <2>1. k \in 1..n /\ PlaceOf(d, n, k) <= i
    BY DEF Served, Positive
  <2>2. PlaceOf(d, n, k) < PlaceOf(d, n, j)
    BY <1>1, <1>4, <2>1, PlaceType
  <2>3. Ahead(d, k, j)
    BY <1>1, <2>1, <2>2, PlacesOrder
  <2> QED
    BY <2>1, <2>3 DEF Before
<1> QED
  BY Zenon, <1>4, <1>5, <1>6

(***************************************************************************)
(* The array of a round, and how to tell from it that all are served.      *)
(***************************************************************************)
LEMMA MarkedType ==
  ASSUME NEW n \in Nat, NEW d \in [1..n -> Nat], NEW i \in Nat
  PROVE  /\ Marked(d, n, i) \in [1..n -> Nat]
         /\ Positive(Marked(d, n, i), n) = {} <=> Positive(d, n) \subseteq Served(d, n, i)
         /\ IsFiniteSet(Served(d, n, i))
         /\ Cardinality(Served(d, n, i)) \in Nat
<1>1. Marked(d, n, i) \in [1..n -> Nat]
  BY DEF Marked
<1>2. Positive(Marked(d, n, i), n) = Positive(d, n) \ Served(d, n, i)
  BY DEF Marked, Positive
<1>3. Positive(Marked(d, n, i), n) = {} <=> Positive(d, n) \subseteq Served(d, n, i)
  BY <1>2, Zenon
<1>4. IsFiniteSet(1..n) /\ Served(d, n, i) \in SUBSET (1..n)
  BY FS_Interval DEF Served, Positive
<1>5. IsFiniteSet(Served(d, n, i))
  BY <1>4, FS_Subset
<1> QED
  BY <1>1, <1>3, <1>5, FS_CardinalityType

(***************************************************************************)
(* The player of the next place is the one the next round serves.          *)
(***************************************************************************)
LEMMA ServedGrows ==
  ASSUME NEW n \in Nat, NEW d \in [1..n -> Nat], NEW i \in Nat, NEW j \in Positive(d, n),
         PlaceOf(d, n, j) = i + 1
  PROVE  /\ Served(d, n, i + 1) = Served(d, n, i) \cup {j}
         /\ j \notin Served(d, n, i)
<1>1. j \in 1..n /\ \A k \in Positive(d, n) : k \in 1..n /\ PlaceOf(d, n, k) \in Nat
  BY PlaceType DEF Positive
<1>2. \A k \in Positive(d, n) : PlaceOf(d, n, k) = i + 1 => k = j
  BY <1>1, PlacesOrder
<1>3. \A k \in Positive(d, n) : PlaceOf(d, n, k) <= i + 1 <=> PlaceOf(d, n, k) <= i \/ k = j
  BY <1>1, <1>2
<1>4. ~(PlaceOf(d, n, j) <= i)
  OBVIOUS
<1> QED
  BY <1>3, <1>4, Zenon DEF Served

(***************************************************************************)
(* Until all are served, the first i places serve i players: there are no  *)
(* gaps in the order.                                                      *)
(***************************************************************************)
LEMMA ServedCount ==
  ASSUME NEW n \in Nat, NEW d \in [1..n -> Nat]
  PROVE  \A i \in Nat : \/ Positive(d, n) \subseteq Served(d, n, i)
                         \/ Cardinality(Served(d, n, i)) = i
<1> DEFINE T == {i \in Nat : \/ Positive(d, n) \subseteq Served(d, n, i)
                             \/ Cardinality(Served(d, n, i)) = i}
<1>1. 0 \in T
  <2>1. Served(d, n, 0) = {}
    BY PlaceType DEF Served, Positive
  <2> QED
    BY Zenon, <2>1, FS_EmptySet
<1>2. ASSUME NEW i \in Nat, i \in T
      PROVE  i + 1 \in T
  <2>1. CASE Positive(d, n) \subseteq Served(d, n, i)
    BY <2>1, PlaceType DEF Served, Positive
  <2>2. CASE ~(Positive(d, n) \subseteq Served(d, n, i))
    <3> DEFINE a == Marked(d, n, i)
               j == MaxIndex(a, n)
    <3>1. Cardinality(Served(d, n, i)) = i
      BY <1>2, <2>2
    <3>2. j \in FirstMaxima(a, n)
      <4>1. a \in [1..n -> Nat] /\ Positive(a, n) # {}
        BY Zenon, <2>2, MarkedType
      <4> HIDE DEF a
      <4> QED
        BY <4>1, MaximumFound
    <3> HIDE DEF j
    <3>3. j \in Positive(d, n) /\ Before(d, n, j) = Served(d, n, i)
      BY <2>2, <3>2, NextMaximum
    <3>4. PlaceOf(d, n, j) = i + 1
      BY <3>1, <3>3 DEF PlaceOf
    <3>5. /\ Served(d, n, i + 1) = Served(d, n, i) \cup {j}
          /\ j \notin Served(d, n, i)
      BY <3>3, <3>4, ServedGrows
    <3>6. Cardinality(Served(d, n, i + 1)) = i + 1
      <4>1. IsFiniteSet(Served(d, n, i))
        BY MarkedType
      <4>2. Cardinality(Served(d, n, i) \cup {j}) = Cardinality(Served(d, n, i)) + 1
        BY <3>5, <4>1, FS_AddElement
      <4> QED
        BY Zenon, <3>1, <3>5, <4>2
    <3> QED
      BY <3>6
  <2> QED
    BY <2>1, <2>2
<1> HIDE DEF T
<1>3. \A i \in Nat : i \in T
  BY Zenon, <1>1, <1>2, NatInductive
<1> QED
  BY <1>3 DEF T

\* The array after a round: the maximum found is set to 0.
Pass(a, n) == [a EXCEPT ![MaxIndex(a, n)] = 0]

(***************************************************************************)
(* A round picks the player of its place, if there is one, and the first   *)
(* of the array otherwise; and it crosses out that player alone.           *)
(***************************************************************************)
LEMMA RoundPicks ==
  ASSUME NEW n \in Nat, NEW d \in [1..n -> Nat], NEW i \in 0..(n - 1)
  PROVE  LET j == MaxIndex(Marked(d, n, i), n)
         IN  /\ Marked(d, n, i + 1) = Pass(Marked(d, n, i), n)
             /\ \/ j \in Positive(d, n) /\ PlaceOf(d, n, j) = i + 1
                \/ j = 1 /\ \A k \in Positive(d, n) : PlaceOf(d, n, k) # i + 1
<1> DEFINE a == Marked(d, n, i)
           j == MaxIndex(a, n)
<1>0. i \in Nat /\ 1 \in 1..n
  OBVIOUS
<1>1. CASE Positive(d, n) \subseteq Served(d, n, i)
  <2>1. Positive(a, n) = {}
    BY Zenon, <1>0, <1>1, MarkedType
  <2>2. j = 1
    BY Zenon, <1>0, <2>1, MarkedType, MaximumFound
  <2>3. \A k \in Positive(d, n) : PlaceOf(d, n, k) \in Nat /\ PlaceOf(d, n, k) <= i
    BY Zenon, <1>1, PlaceType DEF Served, Positive
  <2>4. Served(d, n, i) = Positive(d, n) /\ Served(d, n, i + 1) = Positive(d, n)
    BY <2>3 DEF Served
  <2>5. a[1] = 0
    BY <1>0, <2>4 DEF Marked, Positive
  <2>6. Marked(d, n, i + 1) = a
    BY <2>4 DEF Marked
  <2>7. a = [a EXCEPT ![1] = 0]
    BY ZenonT(120), <2>5 DEF Marked
  <2> QED
    BY <2>2, <2>3, <2>6, <2>7 DEF Pass
<1>2. CASE ~(Positive(d, n) \subseteq Served(d, n, i))
  <2>1. Cardinality(Served(d, n, i)) = i
    BY <1>0, <1>2, ServedCount
  <2>2. j \in FirstMaxima(a, n)
    <3>1. a \in [1..n -> Nat] /\ Positive(a, n) # {}
      BY ZenonT(120), <1>0, <1>2, MarkedType
    <3> HIDE DEF a
    <3> QED
      BY <3>1, MaximumFound
  <2> HIDE DEF j
  <2>3. j \in Positive(d, n) /\ Before(d, n, j) = Served(d, n, i)
    BY <1>0, <1>2, <2>2, NextMaximum
  <2>4. PlaceOf(d, n, j) = i + 1
    BY <2>1, <2>3 DEF PlaceOf
  <2>5. Served(d, n, i + 1) = Served(d, n, i) \cup {j}
    BY <1>0, <2>3, <2>4, ServedGrows
  <2>6. Marked(d, n, i + 1) = [a EXCEPT ![j] = 0]
    BY Zenon, <2>3, <2>5 DEF Marked, Positive
  <2> QED
    BY <2>3, <2>4, <2>6 DEF j, Pass
<1> QED
  BY <1>1, <1>2

\* f gives the array after each round.
Selects(f, d, n) ==
  f = [i \in 0..n |-> IF i = 0 THEN d ELSE Pass(f[i - 1], n)]

(***************************************************************************)
(* After i rounds the array has the first i places crossed out.            *)
(***************************************************************************)
LEMMA LeftIsMarked ==
  ASSUME NEW n \in Nat, NEW d \in [1..n -> Nat]
  PROVE  \A i \in 0..n : Left(d, n)[i] = Marked(d, n, i)
<1> DEFINE w == [i \in 0..n |-> Marked(d, n, i)]
           g == CHOOSE f : Selects(f, d, n)
           T == {i \in Nat : i <= n => g[i] = Marked(d, n, i)}
<1>1. Marked(d, n, 0) = d
  BY PlaceType DEF Marked, Served, Positive
<1>2. \A i \in 1..n : Marked(d, n, i) = Pass(Marked(d, n, i - 1), n)
  <2> SUFFICES ASSUME NEW i \in 1..n
               PROVE  Marked(d, n, i) = Pass(Marked(d, n, i - 1), n)
    OBVIOUS
  <2>1. i - 1 \in 0..(n - 1) /\ (i - 1) + 1 = i
    OBVIOUS
  <2>2. Marked(d, n, (i - 1) + 1) = Pass(Marked(d, n, i - 1), n)
    BY <2>1, RoundPicks
  <2> QED
    BY <2>1, <2>2
<1>3. Selects(w, d, n)
  <2>1. \A i \in 0..n : w[i] = Marked(d, n, i)
    OBVIOUS
  <2>2. \A i \in 1..n : i - 1 \in 0..n
    OBVIOUS
  <2>3. \A i \in 0..n : w[i] = IF i = 0 THEN d ELSE Pass(w[i - 1], n)
    <3> HIDE DEF w
    <3> SUFFICES ASSUME NEW i \in 0..n
                 PROVE  w[i] = IF i = 0 THEN d ELSE Pass(w[i - 1], n)
      OBVIOUS
    <3>1. CASE i = 0
      BY <1>1, <2>1, <3>1
    <3>2. CASE i # 0
      <4>1. i \in 1..n
        BY <3>2
      <4> QED
        BY <1>2, <2>1, <2>2, <3>2, <4>1
    <3> QED
      BY <3>1, <3>2
  <2>4. w = [i \in 0..n |-> w[i]]
    OBVIOUS
  <2> HIDE DEF w
  <2> QED
    BY Zenon, <2>3, <2>4 DEF Selects
<1>4. Selects(g, d, n)
  BY <1>3
<1>5. Left(d, n) = g
  BY DEF Left, Selects, Pass
<1> HIDE DEF g
<1>6. /\ g[0] = d
      /\ \A i \in 1..n : g[i] = Pass(g[i - 1], n)
  BY <1>4 DEF Selects
<1>7. 0 \in T
  BY <1>1, <1>6
<1>8. ASSUME NEW i \in Nat, i \in T
      PROVE  i + 1 \in T
  <2> SUFFICES ASSUME i + 1 <= n
               PROVE  g[i + 1] = Marked(d, n, i + 1)
    OBVIOUS
  <2>1. g[i] = Marked(d, n, i)
    BY <1>8
  <2>2. i + 1 \in 1..n /\ (i + 1) - 1 = i
    OBVIOUS
  <2> QED
    BY <1>2, <1>6, <2>1, <2>2
<1> HIDE DEF T
<1>9. \A i \in Nat : i \in T
  BY Zenon, <1>7, <1>8, NatInductive
<1> QED
  BY <1>5, <1>9 DEF T

(***************************************************************************)
(* The places of the players that are off are among 1..n; the last one is  *)
(* free when the first player is exact.                                    *)
(***************************************************************************)
LEMMA PlaceBounded ==
  ASSUME NEW n \in Nat, NEW d \in [1..n -> Nat], NEW k \in Positive(d, n)
  PROVE  /\ PlaceOf(d, n, k) \in 1..n
         /\ d[1] = 0 => PlaceOf(d, n, k) # n
<1> DEFINE B == Before(d, n, k)
<1>1. k \in 1..n /\ 1 \in 1..n /\ d[k] > 0
  BY DEF Positive
<1>2. /\ IsFiniteSet(1..n) /\ Cardinality(1..n) = n
  BY FS_Interval
<1>3. B \in SUBSET (1..n) /\ k \notin B /\ (d[1] = 0 => 1 \notin B)
  BY <1>1 DEF Before, Ahead
<1>4. IsFiniteSet(B) /\ Cardinality(B) \in Nat
  BY <1>1, PlaceType
<1> HIDE DEF B
<1>5. /\ IsFiniteSet(B \cup {k}) /\ Cardinality(B \cup {k}) = Cardinality(B) + 1
      /\ B \cup {k} \in SUBSET (1..n)
  BY <1>1, <1>3, <1>4, FS_AddElement
<1>6. Cardinality(B) + 1 <= n
  BY <1>2, <1>5, FS_Subset
<1>7. ASSUME d[1] = 0, Cardinality(B) + 1 = n
      PROVE  FALSE
  <2>1. B \cup {k} = 1..n
    BY Zenon, <1>2, <1>5, <1>7, FS_Subset
  <2> QED
    BY <1>1, <1>3, <1>7, <2>1
<1> QED
  BY <1>4, <1>6, <1>7 DEF PlaceOf, B

(***************************************************************************)
(* What the ranking holds, as indices: the pick of each round. PlacesRight *)
(* says that each place has its player, or the first of the array if none  *)
(* is due there, and MissingRight that exactly the players at distance 0,  *)
(* but for the first of the array, are left out.                           *)
(***************************************************************************)
Picks(r, d, n) == \A i \in 1..n : r[i] = MaxIndex(Left(d, n)[i - 1], n)

PlacesRight(r, d, n) ==
  \A i \in 1..n :
    \/ r[i] \in Positive(d, n) /\ PlaceOf(d, n, r[i]) = i
    \/ r[i] = 1 /\ \A k \in Positive(d, n) : PlaceOf(d, n, k) # i

MissingRight(r, d, n) ==
  \A k \in 1..n : (\A i \in 1..n : r[i] # k) <=> k > 1 /\ d[k] = 0

(***************************************************************************)
(* The picks of all rounds put every player in the place due.              *)
(***************************************************************************)
LEMMA RankPlaces ==
  ASSUME NEW n \in Nat, NEW d \in [1..n -> Nat], NEW r, Picks(r, d, n)
  PROVE  PlacesRight(r, d, n) /\ MissingRight(r, d, n)
<1>1. ASSUME NEW i \in 1..n
      PROVE  \/ r[i] \in Positive(d, n) /\ PlaceOf(d, n, r[i]) = i
             \/ r[i] = 1 /\ \A k \in Positive(d, n) : PlaceOf(d, n, k) # i
  <2>1. i - 1 \in 0..(n - 1) /\ (i - 1) + 1 = i /\ i - 1 \in 0..n
    OBVIOUS
  <2>2. r[i] = MaxIndex(Marked(d, n, i - 1), n)
    BY <2>1, LeftIsMarked DEF Picks
  <2> QED
    BY <2>1, <2>2, RoundPicks
<1>2. ASSUME NEW k \in 1..n, d[k] > 0
      PROVE  \E i \in 1..n : r[i] = k
  <2> DEFINE p == PlaceOf(d, n, k)
  <2>1. k \in Positive(d, n)
    BY <1>2 DEF Positive
  <2>2. p \in 1..n
    BY <2>1, PlaceBounded
  <2>3. r[p] \in Positive(d, n) /\ PlaceOf(d, n, r[p]) = p
    BY <1>1, <2>1, <2>2
  <2>4. r[p] = k
    BY <2>3, PlacesOrder DEF Positive
  <2> QED
    BY <2>2, <2>4
<1>3. ASSUME NEW k \in 1..n, k > 1, d[k] = 0, NEW i \in 1..n
      PROVE  r[i] # k
  <2>1. CASE r[i] \in Positive(d, n)
    BY <1>3, <2>1 DEF Positive
  <2>2. CASE r[i] = 1
    BY <1>3, <2>2
  <2> QED
    BY <1>1, <2>1, <2>2
<1>4. ASSUME 1 \in 1..n, d[1] = 0
      PROVE  \E i \in 1..n : r[i] = 1
  <2>1. n \in 1..n /\ \A k \in Positive(d, n) : PlaceOf(d, n, k) # n
    BY <1>4, PlaceBounded
  <2>2. r[n] = 1
    BY <1>1, <2>1
  <2> QED
    BY <2>1, <2>2
<1>5. ASSUME NEW k \in 1..n
      PROVE  (\A i \in 1..n : r[i] # k) <=> k > 1 /\ d[k] = 0
  <2>1. CASE d[k] > 0
    <3>1. ~(\A i \in 1..n : r[i] # k)
      BY <1>2, <2>1
    <3> QED
      BY <2>1, <3>1
  <2>2. CASE d[k] = 0 /\ k > 1
    BY <1>3, <2>2
  <2>3. CASE d[k] = 0 /\ k = 1
    BY <1>4, <2>3
  <2>4. d[k] > 0 \/ d[k] = 0
    OBVIOUS
  <2> QED
    BY <2>1, <2>2, <2>3, <2>4
<1> QED
  BY <1>1, <1>5 DEF PlacesRight, MissingRight

\* The ranking as the picks of the rounds.
Picked(players, d, n) == [i \in 1..n |-> players[MaxIndex(Left(d, n)[i - 1], n)]]

(***************************************************************************)
(* The ranking of the model is made of those picks.                        *)
(***************************************************************************)
LEMMA RankUnfolds ==
  ASSUME NEW players, NEW guess, NEW target, NEW n, n = Len(players),
         NEW d, d = Distances(players, guess, target)
  PROVE  Rank(players, guess, target) = Picked(players, d, n)
BY ZenonT(120) DEF Rank, Picked

(***************************************************************************)
(* The in-place selection of _populateRankings agrees with the reference   *)
(* for every number of players and every guess: each player that is off    *)
(* gets the place of the stable order by decreasing distance, all other    *)
(* places get the first player of the array, and the other exact players   *)
(* are left out.                                                           *)
(***************************************************************************)
THEOREM RankIsAlwaysReference == EveryInput => []RankIsReference
<1>1. InputsTyped => RankIsReference
  <2> SUFFICES ASSUME InputsTyped PROVE RankIsReference
    OBVIOUS
  <2> DEFINE n == Len(guesses)
             d == [i \in 1..n |-> Off(i)]
             r == Rank(Players, guesses, final)
  <2>1. /\ n \in Nat /\ DOMAIN guesses = 1..n /\ final \in Nat
        /\ \A i \in 1..n : guesses[i] \in Nat
    BY InputAssumption DEF InputsTyped
  <2>2. \A i \in 1..n : Off(i) \in Nat
    BY <2>1 DEF Off, Distance
  <2>3. d \in [1..n -> Nat]
    BY <2>2
  <2>4. n = Len(Players) /\ \A i \in 1..n : Players[i] = i
    BY <2>1 DEF Players
  <2>5. d = Distances(Players, guesses, final)
    BY <2>4 DEF Distances, Off
  <2>6. r = Picked(Players, d, n)
    <3> HIDE DEF d, n
    <3> QED
      BY SMTT(120), <2>4, <2>5, RankUnfolds
  <2>7. \A i \in 1..n : MaxIndex(Left(d, n)[i - 1], n) \in 1..n
    <3> SUFFICES ASSUME NEW i \in 1..n
                 PROVE  MaxIndex(Left(d, n)[i - 1], n) \in 1..n
      OBVIOUS
    <3>1. i - 1 \in 0..n /\ i - 1 \in 0..(n - 1)
      BY <2>1
    <3>2. Left(d, n)[i - 1] = Marked(d, n, i - 1)
      BY ZenonT(120), <2>1, <2>3, <3>1, LeftIsMarked
    <3> HIDE DEF d
    <3> QED
      BY SMTT(120), <2>1, <2>3, <3>1, <3>2, RoundPicks DEF Positive
  <2>8. Picks(r, d, n)
    BY <2>4, <2>6, <2>7 DEF Picks, Picked
  <2>9. \A i \in DOMAIN guesses : d[i] = Off(i) /\ PlaceOf(d, n, i) = Place(i)
    <3> SUFFICES ASSUME NEW i \in 1..n
                 PROVE  d[i] = Off(i) /\ PlaceOf(d, n, i) = Place(i)
      BY <2>1
    <3>1. \A k \in 1..n : d[k] = Off(k)
      OBVIOUS
    <3> HIDE DEF d, n
    <3>2. Before(d, n, i) = {k \in DOMAIN guesses :
                               Off(k) > Off(i) \/ (Off(k) = Off(i) /\ k < i)}
      BY <2>1, <3>1 DEF Before, Ahead
    <3> QED
      BY <3>1, <3>2 DEF PlaceOf, Place
  <2> HIDE DEF r, d, n
  <2>10. PlacesRight(r, d, n) /\ MissingRight(r, d, n)
    BY <2>1, <2>3, <2>8, RankPlaces
  <2>11. \A k : k \in Positive(d, n) <=> k \in DOMAIN guesses /\ Off(k) > 0
    BY SMTT(30), <2>1, <2>9 DEF Positive
  <2>12. ASSUME NEW place \in DOMAIN guesses
         PROVE  r[place] =
                  IF \E i \in DOMAIN guesses : Off(i) > 0 /\ Place(i) = place
                  THEN CHOOSE i \in DOMAIN guesses : Off(i) > 0 /\ Place(i) = place
                  ELSE 1
    <3>1. CASE r[place] \in Positive(d, n) /\ PlaceOf(d, n, r[place]) = place
      <4>1. /\ r[place] \in DOMAIN guesses /\ Off(r[place]) > 0
            /\ Place(r[place]) = place
        BY <2>9, <2>11, <3>1
      <4>2. \A i \in DOMAIN guesses : Place(i) = place => i = r[place]
        <5> SUFFICES ASSUME NEW i \in DOMAIN guesses, Place(i) = place
                     PROVE  i = r[place]
          OBVIOUS
        <5>1. i \in 1..n /\ r[place] \in 1..n
          BY <2>1, <4>1
        <5>2. PlaceOf(d, n, i) = PlaceOf(d, n, r[place])
          BY <2>9, <4>1
        <5> QED
          BY Zenon, <2>1, <2>3, <5>1, <5>2, PlacesOrder
      <4> DEFINE c == CHOOSE i \in DOMAIN guesses : Off(i) > 0 /\ Place(i) = place
      <4>3. c \in DOMAIN guesses /\ Place(c) = place
        BY <4>1
      <4>4. c = r[place]
        BY ZenonT(120), <4>2, <4>3
      <4> QED
        BY ZenonT(120), <4>1, <4>4
    <3>2. CASE r[place] = 1 /\ \A k \in Positive(d, n) : PlaceOf(d, n, k) # place
      BY <2>9, <2>11, <3>2
    <3> QED
      BY <2>1, <2>10, <3>1, <3>2 DEF PlacesRight
  <2>13. DOMAIN guesses \ {r[place] : place \in DOMAIN guesses}
           = {i \in DOMAIN guesses : i > 1 /\ Off(i) = 0}
    <3>1. \A k \in DOMAIN guesses :
             (\A place \in DOMAIN guesses : r[place] # k) <=> k > 1 /\ Off(k) = 0
      BY Zenon, <2>1, <2>9, <2>10 DEF MissingRight
    <3> QED
      BY <3>1, ZenonT(120)
  <2> QED
    BY <2>12, <2>13 DEF RankIsReference, r
<1> QED
  BY <1>1, InputsAreTyped, PTL
=============================================================================
