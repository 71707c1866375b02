--------------------------- MODULE FightNightToken ---------------------------
(***************************************************************************)
(* One FightNightToken from its deployment on: a token sold along a        *)
(* bonding curve until its supply is within the tolerance of the market    *)
(* cap, at which point trading stops and the proceeds are to be swapped    *)
(* and bridged.  A step is a successful transaction; one that reverts      *)
(* changes nothing.                                                        *)
(*                                                                         *)
(* The Pyth oracle, the Uniswap router and the bridge are called, not      *)
(* modelled, here: the oracle asks any fee in Fees, the router pays out    *)
(* any amount in SwapOutputs, and both the swap and the bridge may as well *)
(* fail, which reverts the call.  transferFrom moves tokens as transfer    *)
(* does; the allowance it spends is left out, so that Transfer may be      *)
(* taken for any holder.  ETH comes in with mint only, the one payable     *)
(* function; that others send USDC to the contract is left out.            *)
(***************************************************************************)
EXTENDS BondingCurve, Sequences, FiniteSets, Functions

CONSTANTS
  Accounts,      \* the accounts that buy and transfer
  Self,          \* the token contract's own address
  MarketCap,     \* the constructor's marketCap_
  Tolerance,     \* the constructor's marketCapTolerance_, in percent
  ReserveRatio,  \* the constructor's reserveRatio_
  Deposits,      \* the ETH a mint may carry
  Fees,          \* the fees the oracle may ask
  SwapOutputs,   \* the USDC the swap may pay out
  Amounts,       \* the amounts of a transfer
  MaxReserve     \* bound: the reserve balance, and so the total of deposits

Holders == Accounts \cup {Self}

ASSUME TokenAssumption ==
  /\ IsFiniteSet(Accounts) /\ Self \notin Accounts
  /\ MarketCap \in Nat \ {0}     \* _checkValidMarketCap
  /\ Tolerance \in Nat \ {0}     \* _checkValidMarketCap
  /\ ReserveRatio \in Nat
  /\ Deposits \subseteq Nat
  /\ Fees \subseteq Nat
  /\ SwapOutputs \subseteq Nat
  /\ Amounts \subseteq Nat
  /\ MaxReserve \in Nat

VARIABLES
  balances,        \* ERC20 balance of each holder
  totalSupply,     \* ERC20 total supply
  reserveBalance,  \* the reserve the curve computes with
  isTradable,      \* the sale is open
  ethBalance,      \* ETH held by the contract
  usdcBalance,     \* USDC held by the contract
  feesPaid,        \* history: ETH paid to the oracle
  bridged          \* history: the amounts handed to the bridge

vars == <<balances, totalSupply, reserveBalance, isTradable, ethBalance,
          usdcBalance, feesPaid, bridged>>

TypeOK ==
  /\ balances \in [Holders -> Nat]
  /\ totalSupply \in Nat
  /\ reserveBalance \in Nat
  /\ isTradable \in BOOLEAN
  /\ ethBalance \in Nat
  /\ usdcBalance \in Nat
  /\ feesPaid \in Nat
  /\ bridged \in Seq(Nat)

Init ==
  /\ balances = [h \in Holders |-> 0]
  /\ totalSupply = 0
  /\ reserveBalance = 10 * Decimals
  /\ isTradable = TRUE
  /\ ethBalance = 0
  /\ usdcBalance = 0
  /\ feesPaid = 0
  /\ bridged = <<>>

(***************************************************************************)
(* The tolerance around the market cap.  Every update of a balance         *)
(* computes both bounds, and reverts when one of them does not fit: a      *)
(* tolerance of more than 100 passes the constructor, and then             *)
(* _marketCapLowerBound underflows.                                        *)
(***************************************************************************)
Margin == (MarketCap * Tolerance) \div 100
UpperBound == MarketCap + Margin
LowerBound == MarketCap - Margin
BoundsFit ==
  MarketCap * Tolerance <= MaxUint /\ UpperBound <= MaxUint /\ Margin <= MarketCap

\* Fault: the check forgets the amount that is about to be minted.
WithinSupplyOnly(amount) == totalSupply <= UpperBound

(***************************************************************************)
(* _checkWithinMarketCap.                                                  *)
(***************************************************************************)
WithinMarketCap(amount) == amount + totalSupply <= UpperBound

(***************************************************************************)
(* _swapForUSDC: the router pays out swapped.  What it is to take in is    *)
(* the contract's balance of its own token; no ETH goes with the call.     *)
(***************************************************************************)
SwapForUSDC(swapped) == usdcBalance' = usdcBalance + swapped

(***************************************************************************)
(* _bridgeFunds: the bridge is asked to send the contract's whole USDC     *)
(* balance, as it is after the swap.  The bridge takes nothing from the    *)
(* token by that.                                                          *)
(***************************************************************************)
\* Fault: the balance is the one from before the swap.
BridgeStaleBalance == bridged' = Append(bridged, usdcBalance)

BridgeFunds == bridged' = Append(bridged, usdcBalance')

(***************************************************************************)
(* The end of _update, with the supply it leaves.                          *)
(***************************************************************************)
CloseWhenReached(supply, swapped) ==
  IF supply > LowerBound
  THEN /\ isTradable' = FALSE
       /\ SwapForUSDC(swapped)
       /\ BridgeFunds
  ELSE UNCHANGED <<isTradable, usdcBalance, bridged>>

\* Fault: the reserve grows by what is left of the deposit after the fee.
CollectNet(deposit, fee) ==
  /\ fee <= deposit
  /\ reserveBalance' = reserveBalance + deposit - fee
  /\ ethBalance' = ethBalance + deposit - fee
  /\ feesPaid' = feesPaid + fee

(***************************************************************************)
(* The ETH of a mint.  The fee of _updatePrice is paid out of whatever the *)
(* contract holds, the deposit included; the reserve grows by the whole    *)
(* deposit.                                                                *)
(***************************************************************************)
Collect(deposit, fee) ==
  /\ fee <= ethBalance + deposit
  /\ reserveBalance + deposit <= MaxReserve
  /\ reserveBalance' = reserveBalance + deposit
  /\ ethBalance' = ethBalance + deposit - fee
  /\ feesPaid' = feesPaid + fee

(***************************************************************************)
(* mint, with _customMint and _update, both of which check the cap.        *)
(***************************************************************************)
Mint(sender, deposit, fee, swapped) ==
  LET amount == Purchase(totalSupply, reserveBalance, ReserveRatio, deposit)
      supply == totalSupply + amount
  IN  /\ isTradable
      /\ deposit > 0
      /\ MayPurchase(totalSupply, reserveBalance, ReserveRatio, deposit)
      /\ amount \in 0..MaxUint
      /\ BoundsFit
      /\ WithinMarketCap(amount)
      /\ balances' = [balances EXCEPT ![sender] = @ + amount]
      /\ totalSupply' = supply
      /\ CloseWhenReached(supply, swapped)
      /\ Collect(deposit, fee)

\* Fault: a closed token is transferred.
TransferWhenClosed(from, to, amount, swapped) ==
  /\ amount <= balances[from]
  /\ balances' = [[balances EXCEPT ![from] = @ - amount]
                           EXCEPT ![to] = @ + amount]
  /\ UNCHANGED <<totalSupply, reserveBalance, isTradable, ethBalance,
                 usdcBalance, feesPaid, bridged>>

(***************************************************************************)
(* transfer and transferFrom, through the same _update.                    *)
(***************************************************************************)
Transfer(from, to, amount, swapped) ==
  /\ isTradable
  /\ BoundsFit
  /\ WithinMarketCap(amount)
  /\ amount <= balances[from]
  /\ balances' = [[balances EXCEPT ![from] = @ - amount]
                           EXCEPT ![to] = @ + amount]
  /\ CloseWhenReached(totalSupply, swapped)
  /\ UNCHANGED <<totalSupply, reserveBalance, ethBalance, feesPaid>>

Next ==
  \E swapped \in SwapOutputs :
    \/ \E sender \in Accounts, deposit \in Deposits, fee \in Fees :
         Mint(sender, deposit, fee, swapped)
    \/ \E from \in Accounts, to \in Holders, amount \in Amounts :
         Transfer(from, to, amount, swapped)

Spec == Init /\ [][Next]_vars

-----------------------------------------------------------------------------
(***************************************************************************)
(* The sale is open exactly as long as the supply has not passed the lower *)
(* bound of the cap, although _update looks at the supply only after it    *)
(* changed it, and looks again on every transfer.                          *)
(***************************************************************************)
OpenUntilCapReached ==
  isTradable <=> (BoundsFit => totalSupply <= LowerBound)

(***************************************************************************)
(* Nobody, by any sequence of purchases, gets the supply past the upper    *)
(* bound of the cap.                                                       *)
(***************************************************************************)
SupplyWithinCap == BoundsFit => totalSupply <= UpperBound

(***************************************************************************)
(* The sale and its cap: open exactly until the cap is reached, and never  *)
(* sold past the tolerance (_update, _checkWithinMarketCap).               *)
(***************************************************************************)
SaleBounded == OpenUntilCapReached /\ SupplyWithinCap

(***************************************************************************)
(* The tokens of all holders, the contract among them, add up to the       *)
(* supply that the cap is compared with.                                   *)
(***************************************************************************)
SupplyIsHeld == totalSupply = SumFunctionOnSet(balances, Holders)

(***************************************************************************)
(* The ETH behind the reserve: the reserve the curve computes with exceeds *)
(* the ETH the contract holds by the initial 10 * DECIMALS and by all fees *)
(* ever paid to the oracle, before and after the close.  So no ETH leaves  *)
(* for the swap, and the reserve is never fully backed.                    *)
(***************************************************************************)
ReserveBacking == reserveBalance = 10 * Decimals + ethBalance + feesPaid

(***************************************************************************)
(* The books balance: every token of the supply is held by someone, and    *)
(* the reserve is off from the ETH held by the initial reserve and the     *)
(* fees, whatever mixture of mints and transfers led here (mint, _update,  *)
(* _updatePrice).                                                          *)
(***************************************************************************)
BooksBalance == SupplyIsHeld /\ ReserveBacking

(***************************************************************************)
(* The funds are handed to the bridge once, by the transaction that closes *)
(* the sale, and what is handed over is all the USDC the contract holds.   *)
(***************************************************************************)
BridgedOnceAtClose ==
  bridged = IF isTradable THEN <<>> ELSE <<usdcBalance>>

(***************************************************************************)
(* A closed sale is closed for good: nobody's balance, nor the reserve,    *)
(* nor the contract's funds change again, transfers between holders        *)
(* included.                                                               *)
(***************************************************************************)
FrozenOnceClosed == [][isTradable]_vars
==============================================================================
