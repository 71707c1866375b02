------------------------------ MODULE WebPages ------------------------------
(***************************************************************************)
(* The page of one visitor and the token factories it works with: the form *)
(* that deploys a token (DeployToken), the cards that sell the deployed    *)
(* ones (DeployedTokens), the World ID button with its endpoint            *)
(* (index.tsx, api/verify.ts), and one FightNightTokenFactory per chain    *)
(* with its owner.                                                         *)
(*                                                                         *)
(* A handler runs up to its first await in the step of the click, and each *)
(* answer it awaits is a step of its own; what is shown is a function of   *)
(* the state after a step.  The wallet, the price service, the chains and  *)
(* the IDKit widget are modelled from how the pages use them: the wallet   *)
(* sends a transaction or refuses it, sent transactions are executed in    *)
(* any order, and the widget calls onSuccess when handleVerify returns and *)
(* shows an error when it throws.                                          *)
(***************************************************************************)
EXTENDS Integers, Sequences

CONSTANTS
  ChainOptions,   \* the chains of chainOptions
  Default,        \* chainOptions[0], shown without a wallet
  None,           \* no chain, no transaction
  Caps,           \* the values of marketCap, tolerance and ratio the owner sets
  MaxSubmits, MaxPurchases, MaxChanges, MaxAttempts  \* bounds

ASSUME PagesAssumption ==
  Default \in ChainOptions /\ None \notin ChainOptions /\ None \notin Nat /\ Caps \subseteq Nat

VARIABLES
  factory,    \* for every chain, the factory's parameters and its tokens
  chain,      \* the chain of the connected wallet, None without one
  contract,   \* DeployToken: the factory the form has loaded
  form,       \* DeployToken: formState
  hash,       \* DeployToken: txHash, as the number of a submit
  submits,    \* the createToken transactions asked for, in order
  card,       \* DeployedToken: status of the card of each token of the shown chain
  purchases,  \* the purchases asked for, in order
  verify,     \* the verification under way
  changes     \* counts what the owner and the visitor's wallet change

pagesVars == <<factory, chain, contract, form, hash, submits, card, purchases,
               verify, changes>>
pageVars == <<chain, contract, form, hash, card>>

Shown == IF chain = None THEN Default ELSE chain

PagesInit ==
  /\ factory = [c \in ChainOptions |->
       [cap |-> 100, tolerance |-> 10, ratio |-> 10, bridge |-> 0, tokens |-> <<>>]]
  /\ chain = None /\ contract = None
  /\ form = "IDLE" /\ hash = None
  /\ submits = <<>> /\ purchases = <<>>
  /\ card = <<>>
  /\ verify = [stage |-> "closed", reply |-> None, alert |-> FALSE, tries |-> 0]
  /\ changes = 0

-----------------------------------------------------------------------------
(***************************************************************************)
(* The owner of a factory sets the parameters of the tokens to come.       *)
(***************************************************************************)
Change == changes < MaxChanges /\ changes' = changes + 1

SetMarketCap(c, cap, tolerance) ==
  /\ Change
  /\ factory' = [factory EXCEPT ![c].cap = cap, ![c].tolerance = tolerance]
  /\ UNCHANGED <<pageVars, submits, purchases, verify>>

SetReserveRatio(c, ratio) ==
  /\ Change
  /\ factory' = [factory EXCEPT ![c].ratio = ratio]
  /\ UNCHANGED <<pageVars, submits, purchases, verify>>

SetCCIPBridge(c) ==
  /\ Change
  /\ factory' = [factory EXCEPT ![c].bridge = @ + 1]
  /\ UNCHANGED <<pageVars, submits, purchases, verify>>

(***************************************************************************)
(* _checkValidMarketCap of the token's constructor.                        *)
(***************************************************************************)
Valid(f) == f.cap # 0 /\ f.tolerance # 0

(***************************************************************************)
(* createToken: the token gets the parameters of the moment it is executed *)
(* at; the constructor may revert it.                                      *)
(***************************************************************************)
Created(f, i) ==
  [f EXCEPT !.tokens = Append(@, [cap |-> f.cap, tolerance |-> f.tolerance,
                                  ratio |-> f.ratio, bridge |-> f.bridge,
                                  submit |-> i])]

CreateToken(i) ==
  LET c == submits[i].chain
  IN  /\ submits[i].state = "sent"
      /\ IF Valid(factory[c])
         THEN /\ factory' = [factory EXCEPT ![c] = Created(factory[c], i)]
              /\ submits' = [submits EXCEPT ![i].state = "created"]
         ELSE /\ submits' = [submits EXCEPT ![i].state = "reverted"]
              /\ UNCHANGED factory
      /\ UNCHANGED <<pageVars, purchases, verify, changes>>

-----------------------------------------------------------------------------
(***************************************************************************)
(* The wallet connects, switches chains or disconnects.  The form loads    *)
(* the factory of a new chain, and keeps the last one without a chain; the *)
(* cards of another chain's tokens are other components.                   *)
(***************************************************************************)
SwitchChain(c) ==
  /\ c # chain /\ Change
  /\ chain' = c
  /\ contract' = IF c = None THEN contract ELSE c
  /\ card' = IF (IF c = None THEN Default ELSE c) = Shown THEN card ELSE <<>>
  /\ purchases' = IF card' = card THEN purchases
                  ELSE [i \in DOMAIN purchases |-> [purchases[i] EXCEPT !.mounted = FALSE]]
  /\ UNCHANGED <<factory, form, hash, submits, verify>>

(***************************************************************************)
(* getDeployedTokens is read again: new tokens get a card.                 *)
(***************************************************************************)
RefreshTokens ==
  /\ Len(card) < Len(factory[Shown].tokens)
  /\ card' = [k \in 1..Len(factory[Shown].tokens) |->
                IF k <= Len(card) THEN card[k] ELSE "IDLE"]
  /\ UNCHANGED <<factory, chain, contract, form, hash, submits, purchases,
                 verify, changes>>

(***************************************************************************)
(* handleSubmit up to the wallet.  It never enters LOADING: the form stays *)
(* and may be submitted again before the first answer.                     *)
(***************************************************************************)
HandleSubmit ==
  /\ form = "IDLE" /\ Len(submits) < MaxSubmits
  /\ IF contract = None \/ chain = None
     THEN form' = "ERROR" /\ UNCHANGED submits
     ELSE /\ submits' = Append(submits, [chain |-> contract, state |-> "wallet"])
          /\ UNCHANGED form
  /\ UNCHANGED <<factory, chain, contract, hash, card, purchases, verify, changes>>

(***************************************************************************)
(* sendTransaction of a submit resolves or throws.                         *)
(***************************************************************************)
SubmitAnswered(i, sent) ==
  /\ submits[i].state = "wallet"
  /\ submits' = [submits EXCEPT ![i].state = IF sent THEN "sent" ELSE "refused"]
  /\ hash' = IF sent THEN i ELSE hash
  /\ form' = IF sent THEN "COMPLETE" ELSE "ERROR"
  /\ UNCHANGED <<factory, chain, contract, card, purchases, verify, changes>>

-----------------------------------------------------------------------------
\* Fault: LOADING is entered only after the price service has answered.
HandlePurchaseLate(k) ==
  /\ card[k] = "IDLE" /\ Len(purchases) < MaxPurchases
  /\ chain # None
  /\ purchases' = Append(purchases, [token |-> k, mounted |-> TRUE, state |-> "price"])
  /\ UNCHANGED <<factory, chain, contract, form, hash, submits, card, verify, changes>>

(***************************************************************************)
(* handlePurchase up to the price service; the form of a card is only      *)
(* there while its status is IDLE.                                         *)
(***************************************************************************)
HandlePurchase(k) ==
  /\ card[k] = "IDLE" /\ Len(purchases) < MaxPurchases
  /\ IF chain = None
     THEN card' = [card EXCEPT ![k] = "ERROR"] /\ UNCHANGED purchases
     ELSE /\ card' = [card EXCEPT ![k] = "LOADING"]
          /\ purchases' = Append(purchases, [token |-> k, mounted |-> TRUE,
                                             state |-> "price"])
  /\ UNCHANGED <<factory, chain, contract, form, hash, submits, verify, changes>>

SetStatus(i, status) ==
  card' = IF purchases[i].mounted
          THEN [card EXCEPT ![purchases[i].token] = status] ELSE card

(***************************************************************************)
(* The price service answers or fails; then the wallet, of a transaction   *)
(* that calls mintToken, which the token does not have: it is refused when *)
(* it is estimated, or sent and reverted.                                  *)
(***************************************************************************)
PriceAnswered(i, ok) ==
  /\ purchases[i].state = "price"
  /\ purchases' = [purchases EXCEPT ![i].state = IF ok THEN "wallet" ELSE "failed"]
  /\ IF ok THEN UNCHANGED card ELSE SetStatus(i, "ERROR")
  /\ UNCHANGED <<factory, chain, contract, form, hash, submits, verify, changes>>

PurchaseAnswered(i, sent) ==
  /\ purchases[i].state = "wallet"
  /\ purchases' = [purchases EXCEPT ![i].state = IF sent THEN "sent" ELSE "failed"]
  /\ SetStatus(i, IF sent THEN "COMPLETE" ELSE "ERROR")
  /\ UNCHANGED <<factory, chain, contract, form, hash, submits, verify, changes>>

-----------------------------------------------------------------------------
(***************************************************************************)
(* The World ID button: the widget obtains a proof and calls handleProof,  *)
(* which posts it; the endpoint answers 200, 400 or 500, or the answer is  *)
(* lost; handleProof catches all but a 200, so it always returns.          *)
(***************************************************************************)
OpenWidget ==
  /\ verify.stage = "closed" /\ verify.tries < MaxAttempts
  /\ verify' = [stage |-> "posted", reply |-> None, alert |-> FALSE,
                tries |-> verify.tries + 1]
  /\ UNCHANGED <<factory, pageVars, submits, purchases, changes>>

\* handler of api/verify.ts: verifyCloudProof succeeds, fails or throws.
Handler(result) ==
  /\ verify.stage = "posted"
  /\ verify' = [verify EXCEPT !.stage = "answered",
                  !.reply = CASE result = "success" -> 200
                              [] result = "failure" -> 400
                              [] result = "error" -> 500]
  /\ UNCHANGED <<factory, pageVars, submits, purchases, changes>>

AnswerLost ==
  /\ verify.stage \in {"posted", "answered"}
  /\ verify' = [verify EXCEPT !.stage = "lost"]
  /\ UNCHANGED <<factory, pageVars, submits, purchases, changes>>

HandleProof ==
  /\ verify.stage \in {"answered", "lost"}
  /\ verify' = [verify EXCEPT !.stage = "shown", !.alert = TRUE]
  /\ UNCHANGED <<factory, pageVars, submits, purchases, changes>>

CloseWidget ==
  /\ verify.stage = "shown"
  /\ verify' = [verify EXCEPT !.stage = "closed", !.alert = FALSE]
  /\ UNCHANGED <<factory, pageVars, submits, purchases, changes>>

-----------------------------------------------------------------------------
PageNext ==
  \/ \E c \in ChainOptions :
       \/ \E cap, tolerance \in Caps : SetMarketCap(c, cap, tolerance)
       \/ \E ratio \in Caps : SetReserveRatio(c, ratio)
       \/ SetCCIPBridge(c)
  \/ \E i \in DOMAIN submits :
       CreateToken(i) \/ \E sent \in BOOLEAN : SubmitAnswered(i, sent)
  \/ \E c \in ChainOptions \cup {None} : SwitchChain(c)
  \/ RefreshTokens
  \/ HandleSubmit
  \/ \E k \in DOMAIN card : HandlePurchase(k)
  \/ \E i \in DOMAIN purchases, ok \in BOOLEAN :
       PriceAnswered(i, ok) \/ PurchaseAnswered(i, ok)

\* The button shares nothing with the rest of the page.
VerifyNext ==
  \/ OpenWidget \/ AnswerLost \/ HandleProof \/ CloseWidget
  \/ \E result \in {"success", "failure", "error"} : Handler(result)

PagesNext == PageNext \/ VerifyNext

PagesSpec == PagesInit /\ [][PagesNext]_pagesVars
-----------------------------------------------------------------------------
(***************************************************************************)
(* A card asks for one purchase while it is on the page: LOADING takes the *)
(* form away before the first await, and no answer brings it back          *)
(* (handlePurchase of DeployedTokens.tsx).                                 *)
(***************************************************************************)
Mounted(k) == {i \in DOMAIN purchases : purchases[i].mounted /\ purchases[i].token = k}

OnePurchasePerCard ==
  \A k \in DOMAIN card :
    /\ \A i, j \in Mounted(k) : i = j
    /\ card[k] = "LOADING" <=>
         \E i \in Mounted(k) : purchases[i].state \in {"price", "wallet"}

(***************************************************************************)
(* The hash under "Your fight has been created!" is that of a transaction  *)
(* the wallet has sent, whatever the order in which the answers to several *)
(* submits arrive; and every deployed token was asked for by one of the    *)
(* submits, which has one token at most (handleSubmit, createToken).       *)
(***************************************************************************)
HashWasSent ==
  /\ form = "COMPLETE" => hash # None
  /\ hash # None => submits[hash].state \in {"sent", "created", "reverted"}
  /\ \A c \in ChainOptions : \A k \in DOMAIN factory[c].tokens :
       LET i == factory[c].tokens[k].submit
       IN  /\ submits[i].state = "created" /\ submits[i].chain = c
           /\ \A l \in DOMAIN factory[c].tokens :
                factory[c].tokens[l].submit = i => l = k

(***************************************************************************)
(* Whatever the owner sets between a submit and its execution, a deployed  *)
(* token has a market cap and a tolerance (setMarketCap checks neither).   *)
(***************************************************************************)
TokensValid ==
  \A c \in ChainOptions : \A k \in DOMAIN factory[c].tokens :
    factory[c].tokens[k].cap # 0 /\ factory[c].tokens[k].tolerance # 0

(***************************************************************************)
(* What a card says with "Token bought, you're in!", shown for the status  *)
(* ERROR: a purchase was sent from it (DeployedTokens.tsx).                *)
(***************************************************************************)
CardTruthful ==
  \A k \in DOMAIN card :
    card[k] = "ERROR" => \E i \in Mounted(k) : purchases[i].state = "sent"

(***************************************************************************)
(* What the alert "Successfully verified with World ID!" says: the         *)
(* endpoint has verified the proof (index.tsx).                            *)
(***************************************************************************)
AlertTruthful == verify.alert => verify.reply = 200
=============================================================================
