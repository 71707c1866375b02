---------------------------- MODULE TokenLaunch ----------------------------
(***************************************************************************)
(* A FightNightToken together with the bridge it is to hand its proceeds   *)
(* to.  The token's close is one transaction with the call of              *)
(* sendMessagePayNative in _bridgeFunds: it goes through when the bridge   *)
(* accepts the call, whose sender is the token, and reverts as a whole     *)
(* otherwise.  Accounts administer the bridge in between.                  *)
(***************************************************************************)
EXTENDS FightNightToken, TokenBridge

CONSTANTS
  Home, Away,  \* the token's chain, and the chain _bridgeFunds sends to
  Usdc

ASSUME LaunchAssumption ==
  /\ Home \in Chains /\ Away \in Chains /\ Usdc \in Tokens
  /\ Self \notin People /\ Self # Creator

launchVars == <<vars, bridgeVars>>

LaunchInit == Init /\ BridgeInit

(***************************************************************************)
(* The call _bridgeFunds makes on the bridge, with the token's balance of  *)
(* USDC after the swap as the amount.                                      *)
(***************************************************************************)
BridgeAccepts ==
  \E fee \in RouterFees :
    SendMessagePayNative(Home, Self, Away, Away, Usdc, usdcBalance', fee)

(***************************************************************************)
(* A transaction on the token: one that closes the sale calls the bridge.  *)
(***************************************************************************)
TokenStep ==
  /\ Next
  /\ IF isTradable' = isTradable THEN UNCHANGED bridgeVars ELSE BridgeAccepts

(***************************************************************************)
(* A transaction on the bridge, by an account.  Its owner may name the     *)
(* token as the next owner, but only the token itself could accept.        *)
(***************************************************************************)
BridgeStep ==
  /\ \E sender \in People : Administer(Home, sender) \/ Send(Home, sender)
  /\ UNCHANGED vars

LaunchNext == TokenStep \/ BridgeStep

LaunchSpec == LaunchInit /\ [][LaunchNext]_launchVars
-----------------------------------------------------------------------------
(***************************************************************************)
(* With this bridge no sale ever closes, however its owner sets it up:     *)
(* sendMessagePayNative is onlyOwner, its caller in _bridgeFunds is the    *)
(* token, and the token never becomes the owner.  So every purchase that   *)
(* would pass the lower bound of the cap reverts, and the USDC of no token *)
(* is ever bridged (_update, _bridgeFunds).                                *)
(***************************************************************************)
StaysOpen ==
  /\ isTradable /\ bridged = <<>>
  /\ BoundsFit => totalSupply <= LowerBound
  /\ bridge[Home].owner # Self
=============================================================================
