--------------------------- MODULE MCApplication ---------------------------
(***************************************************************************)
(* The parts of the application around the token and the game, side by     *)
(* side: the initial state picks one (focus), and only that one moves.     *)
(*   ranking, payout, curve   the algorithms of the contracts              *)
(*   bridge   the two bridges and the CCIP network                         *)
(*   launch   a token's sale with the bridge it is to close into           *)
(*   pages    the token pages and the token factories                      *)
(*   verify   the World ID button and its endpoint                         *)
(***************************************************************************)
EXTENDS Algorithms, TokenLaunch, WebPages

CONSTANT Stock  \* what the bridge at Home holds at first

\* The other bridges hold nothing.
HomeFunds == [c \in Chains |-> IF c = Home THEN Stock ELSE 0]

saleVars == vars  \* of FightNightToken
inputVars == <<guesses, final, pot, places, supply, reserve>>
appVars == <<focus, bridgeVars, saleVars, pagesVars, inputVars>>
-----------------------------------------------------------------------------
BridgeAtRest == bridge = None /\ messages = None /\ paid = None /\ edits = None
SaleAtRest == /\ balances = None /\ totalSupply = None /\ reserveBalance = None
              /\ isTradable = None /\ ethBalance = None /\ usdcBalance = None
              /\ feesPaid = None /\ bridged = None
PagesAtRest == /\ factory = None /\ chain = None /\ contract = None /\ form = None
               /\ hash = None /\ submits = None /\ card = None /\ purchases = None
               /\ verify = None /\ changes = None
InputsAtRest == /\ guesses = None /\ final = None /\ pot = None
                /\ places = None /\ supply = None /\ reserve = None

AppInit ==
  \/ FirstInput /\ BridgeAtRest /\ SaleAtRest /\ PagesAtRest
  \/ /\ focus = "bridge" /\ BridgeInit
     /\ SaleAtRest /\ PagesAtRest /\ InputsAtRest
  \/ /\ focus = "launch" /\ LaunchInit
     /\ PagesAtRest /\ InputsAtRest
  \/ /\ focus \in {"pages", "verify"} /\ PagesInit
     /\ BridgeAtRest /\ SaleAtRest /\ InputsAtRest

Steps ==
  \/ /\ focus = "bridge" /\ BridgeNext
     /\ UNCHANGED <<saleVars, pagesVars, inputVars>>
  \/ /\ focus = "launch" /\ LaunchNext
     /\ UNCHANGED <<pagesVars, inputVars>>
  \/ /\ focus = "pages" /\ PageNext
     /\ UNCHANGED <<bridgeVars, saleVars, inputVars>>
  \/ /\ focus = "verify" /\ VerifyNext
     /\ UNCHANGED <<bridgeVars, saleVars, inputVars>>

AppNext ==
  \/ Steps /\ UNCHANGED focus
  \/ NextInput /\ UNCHANGED <<bridgeVars, saleVars, pagesVars>>

AppSpec == AppInit /\ [][AppNext]_appVars
-----------------------------------------------------------------------------
\* Between the chains nothing is lost, made or left approved: every approval is
\* spent by the send it was made for, LINK cannot be sent for a fee in LINK, what
\* leaves one bridge is credited once, and the message shown as received last was
\* received (sendMessagePayLINK, sendMessagePayNative, _ccipReceive).
BridgeSound ==
  focus = "bridge" =>
    ApprovalsSpent /\ LinkNotSentForLink /\ TokensConserved /\ LastWasReceived

\* With the bridge of this repository no sale closes, whatever its owner allows:
\* the bridge refuses the token as a caller (_update, _bridgeFunds).
SaleNeverCloses == focus = "launch" => StaysOpen

\* The pages and the factories under any order of answers: a card buys once, the
\* hash shown was sent, each submit made one token at most, and every token made
\* is a valid one (handlePurchase, handleSubmit, createToken).
PagesSound ==
  focus = "pages" => OnePurchasePerCard /\ HashWasSent /\ TokensValid

\* A card that says "Token bought, you're in!" has sent a purchase.
BoughtWhenSaid == focus = "pages" => CardTruthful

\* The alert "Successfully verified with World ID!" follows a verified proof.
VerifiedWhenSaid == focus = "verify" => AlertTruthful
=============================================================================
