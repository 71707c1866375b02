---------------------------- MODULE TokenBridge ----------------------------
(***************************************************************************)
(* The contract ProgrammableTokenTransfers deployed on every chain of      *)
(* Chains, and the CCIP network between them.  A step is a transaction     *)
(* that goes through; one that reverts changes nothing.                    *)
(*                                                                         *)
(* The CCIP router, the ERC20 tokens and the owner of OwnerIsCreator are   *)
(* libraries: they are modelled from how the contract uses them.  A sent   *)
(* message is executed on the other chain at any later time and in any     *)
(* order; an execution that the receiver refuses, or that runs out of the  *)
(* gas limit of _buildCCIPMessage, is a failed one, and a failed message   *)
(* may be executed by hand later.  The bridge of chain c is the address c. *)
(* The text of a message is left out.                                      *)
(***************************************************************************)
EXTENDS Naturals, Sequences, FiniteSets, Functions

CONSTANTS
  Chains,     \* the chains that have a bridge
  People,     \* the accounts that send transactions
  Nominees,   \* whom an owner may name as the next one, contracts among them
  Creator,    \* the account that deployed the bridges
  Owners,     \* the constructor's _owners
  Receivers,  \* the receivers a message may name besides the other bridge
  NoAddress,  \* address(0)
  Tokens,     \* the ERC20 tokens the bridges hold
  Link,       \* the fee token of sendMessagePayLINK
  Funds,      \* what each bridge holds of every token, and of ETH, at first
  MessageAmounts,  \* the amounts of a message
  RouterFees,      \* the fees the router may ask
  MaxMessages,     \* bound: the messages ever sent
  MaxEdits         \* bound: transactions that are neither sends nor executions

ASSUME BridgeAssumption ==
  /\ IsFiniteSet(Chains) /\ Link \in Tokens
  /\ Funds \in [Chains -> Nat]
  /\ MessageAmounts \subseteq Nat /\ RouterFees \subseteq Nat /\ MaxMessages \in Nat

VARIABLES
  bridge,    \* the storage and the holdings of each bridge
  messages,  \* the messages ever sent, in order
  paid,      \* history: what has left the bridges for accounts and fees
  edits      \* counts the transactions that are neither sends nor executions

bridgeVars == <<bridge, messages, paid, edits>>

BridgeInit ==
  /\ bridge = [c \in Chains |->
       [owner |-> Creator, pending |-> NoAddress, app |-> NoAddress,
        destinations |-> {}, sources |-> {}, senders |-> {},
        eth |-> Funds[c], held |-> [t \in Tokens |-> Funds[c]],
        allowance |-> [t \in Tokens |-> 0], last |-> 0]]
  /\ messages = <<>>
  /\ paid = [t \in Tokens |-> 0]
  /\ edits = 0

(***************************************************************************)
(* onlyOwner, and the OnlyOwners of withdrawFunds and setAppBridge.        *)
(***************************************************************************)
\* Fault: any caller will do.
AnyCaller(c, sender) == TRUE

OnlyOwner(c, sender) == sender = bridge[c].owner
OnlyOwners(sender) == sender \in Owners

Edit == edits < MaxEdits /\ bridge' # bridge /\ edits' = edits + 1

\* external: transferOwnership and acceptOwnership of ConfirmedOwner.
TransferOwnership(c, sender, to) ==
  /\ OnlyOwner(c, sender) /\ to # sender
  /\ bridge' = [bridge EXCEPT ![c].pending = to]
  /\ UNCHANGED <<messages, paid>> /\ Edit

AcceptOwnership(c, sender) ==
  /\ sender = bridge[c].pending
  /\ bridge' = [bridge EXCEPT ![c].owner = sender, ![c].pending = NoAddress]
  /\ UNCHANGED <<messages, paid>> /\ Edit

(***************************************************************************)
(* allowlistDestinationChain, allowlistSourceChain and allowlistSender.    *)
(***************************************************************************)
Listed(set, x, allowed) == IF allowed THEN set \cup {x} ELSE set \ {x}

AllowlistDestinationChain(c, sender, chain, allowed) ==
  /\ OnlyOwner(c, sender)
  /\ bridge' = [bridge EXCEPT ![c].destinations = Listed(@, chain, allowed)]
  /\ UNCHANGED <<messages, paid>> /\ Edit

AllowlistSourceChain(c, sender, chain, allowed) ==
  /\ OnlyOwner(c, sender)
  /\ bridge' = [bridge EXCEPT ![c].sources = Listed(@, chain, allowed)]
  /\ UNCHANGED <<messages, paid>> /\ Edit

AllowlistSender(c, sender, who, allowed) ==
  /\ OnlyOwner(c, sender)
  /\ bridge' = [bridge EXCEPT ![c].senders = Listed(@, who, allowed)]
  /\ UNCHANGED <<messages, paid>> /\ Edit

SetAppBridge(c, sender, app) ==
  /\ OnlyOwners(sender)
  /\ bridge' = [bridge EXCEPT ![c].app = app]
  /\ UNCHANGED <<messages, paid>> /\ Edit

-----------------------------------------------------------------------------
(***************************************************************************)
(* A bridge after an approval, and after a transferFrom by the router,     *)
(* which needs both the allowance and the tokens.                          *)
(***************************************************************************)
Approve(b, token, amount) == [b EXCEPT !.allowance[token] = amount]

MayPull(b, token, amount) ==
  amount <= b.allowance[token] /\ amount <= b.held[token]
Pulled(b, token, amount) ==
  [b EXCEPT !.allowance[token] = @ - amount, !.held[token] = @ - amount]

\* external: the message the router takes over in ccipSend.
Message(c, chain, receiver, token, amount, linkFee) ==
  [from |-> c, to |-> chain, receiver |-> receiver, token |-> token,
   amount |-> amount, linkFee |-> linkFee, state |-> "sent"]

(***************************************************************************)
(* The modifiers that both send functions share.                           *)
(***************************************************************************)
MaySend(c, sender, chain, receiver) ==
  /\ Len(messages) < MaxMessages
  /\ OnlyOwner(c, sender)
  /\ chain \in bridge[c].destinations
  /\ receiver # NoAddress

(***************************************************************************)
(* sendMessagePayLINK: two approvals, then ccipSend, in which the router   *)
(* first takes the fee and then the token.  The second approval replaces   *)
(* the first when both are for LINK.                                       *)
(***************************************************************************)
\* Fault: the fee is approved on top of the amount, for a router that is
\* paid in advance.
SendMessagePayLINKTwice(c, sender, chain, receiver, token, amount, fee) ==
  LET asked == Approve(Approve(bridge[c], token, amount), Link, amount + fee)
      charged == Pulled(asked, Link, fee)
  IN  /\ MaySend(c, sender, chain, receiver)
      /\ fee <= bridge[c].held[Link]
      /\ MayPull(asked, Link, fee) /\ MayPull(charged, token, amount)
      /\ bridge' = [bridge EXCEPT ![c] = Pulled(charged, token, amount)]
      /\ messages' = Append(messages,
                   Message(c, chain, receiver, token, amount, fee))
      /\ paid' = [paid EXCEPT ![Link] = @ + fee]
      /\ UNCHANGED edits

SendMessagePayLINK(c, sender, chain, receiver, token, amount, fee) ==
  LET asked == Approve(Approve(bridge[c], Link, fee), token, amount)
      charged == Pulled(asked, Link, fee)
  IN  /\ MaySend(c, sender, chain, receiver)
      /\ fee <= bridge[c].held[Link]
      /\ MayPull(asked, Link, fee) /\ MayPull(charged, token, amount)
      /\ bridge' = [bridge EXCEPT ![c] = Pulled(charged, token, amount)]
      /\ messages' = Append(messages,
                   Message(c, chain, receiver, token, amount, fee))
      /\ paid' = [paid EXCEPT ![Link] = @ + fee]
      /\ UNCHANGED edits

(***************************************************************************)
(* sendMessagePayNative.  The tokens sent are the bridge's own: nothing is *)
(* taken from the caller.                                                  *)
(***************************************************************************)
SendMessagePayNative(c, sender, chain, receiver, token, amount, fee) ==
  LET asked == Approve(bridge[c], token, amount)
  IN  /\ MaySend(c, sender, chain, receiver)
      /\ fee <= bridge[c].eth
      /\ MayPull(asked, token, amount)
      /\ bridge' = [bridge EXCEPT
                      ![c] = [Pulled(asked, token, amount) EXCEPT !.eth = @ - fee]]
      /\ messages' = Append(messages,
                   Message(c, chain, receiver, token, amount, 0))
      /\ UNCHANGED <<paid, edits>>

-----------------------------------------------------------------------------
(***************************************************************************)
(* _ccipReceive, for a message whose receiver is the bridge of its chain:  *)
(* source chain and sender must be allow-listed at the time of execution.  *)
(* The tokens have been handed over when it is called.                     *)
(***************************************************************************)
CcipReceive(i) ==
  LET m == messages[i]
  IN  /\ m.state # "executed"
      /\ m.receiver = m.to
      /\ m.from \in bridge[m.to].sources
      /\ m.from \in bridge[m.to].senders
      /\ bridge' = [bridge EXCEPT ![m.to].held[m.token] = @ + m.amount,
                                  ![m.to].last = i]
      /\ messages' = [messages EXCEPT ![i].state = "executed"]
      /\ UNCHANGED <<paid, edits>>

\* external: the router executes a message to an account, or fails.
ExecuteForAccount(i) ==
  /\ messages[i].state # "executed"
  /\ messages[i].receiver \in People
  /\ messages' = [messages EXCEPT ![i].state = "executed"]
  /\ paid' = [paid EXCEPT ![messages[i].token] = @ + messages[i].amount]
  /\ UNCHANGED <<bridge, edits>>

ExecutionFails(i) ==
  /\ messages[i].state = "sent"
  /\ messages' = [messages EXCEPT ![i].state = "failed"]
  /\ UNCHANGED <<bridge, paid, edits>>

(***************************************************************************)
(* withdraw takes all ETH; withdrawToken and withdrawFunds all of a token, *)
(* the one for the owner, the other for the owners.                        *)
(***************************************************************************)
Withdraw(c, sender) ==
  /\ OnlyOwner(c, sender)
  /\ bridge[c].eth > 0
  /\ bridge' = [bridge EXCEPT ![c].eth = 0]
  /\ UNCHANGED <<messages, paid>> /\ Edit

TakeAll(c, token) ==
  /\ bridge[c].held[token] > 0
  /\ bridge' = [bridge EXCEPT ![c].held[token] = 0]
  /\ paid' = [paid EXCEPT ![token] = @ + bridge[c].held[token]]
  /\ UNCHANGED messages /\ Edit

WithdrawToken(c, sender, token) == OnlyOwner(c, sender) /\ TakeAll(c, token)
WithdrawFunds(c, sender, token) == OnlyOwners(sender) /\ TakeAll(c, token)

(***************************************************************************)
(* receive: ETH sent to the bridge, to pay for its messages.               *)
(***************************************************************************)
Receive(c) ==
  /\ bridge' = [bridge EXCEPT ![c].eth = @ + 1]
  /\ UNCHANGED <<messages, paid>> /\ Edit

-----------------------------------------------------------------------------
Administer(c, sender) ==
  \/ \E to \in Nominees : TransferOwnership(c, sender, to)
  \/ AcceptOwnership(c, sender)
  \/ \E chain \in Chains \ {c}, allowed \in BOOLEAN :
       \/ AllowlistDestinationChain(c, sender, chain, allowed)
       \/ AllowlistSourceChain(c, sender, chain, allowed)
       \/ AllowlistSender(c, sender, chain, allowed)
  \/ \E app \in Owners : SetAppBridge(c, sender, app)

Send(c, sender) ==
  \E chain \in Chains \ {c}, token \in Tokens, amount \in MessageAmounts, fee \in RouterFees :
    \E receiver \in Receivers \cup {chain} :
      \/ SendMessagePayLINK(c, sender, chain, receiver, token, amount, fee)
      \/ SendMessagePayNative(c, sender, chain, receiver, token, amount, fee)

TakeOut(c, sender) ==
  \/ Withdraw(c, sender)
  \/ \E token \in Tokens :
       WithdrawToken(c, sender, token) \/ WithdrawFunds(c, sender, token)

Execute ==
  \E i \in 1..Len(messages) :
    CcipReceive(i) \/ ExecuteForAccount(i) \/ ExecutionFails(i)

BridgeNext ==
  \/ \E c \in Chains :
       \/ \E sender \in People :
            Administer(c, sender) \/ Send(c, sender) \/ TakeOut(c, sender)
       \/ Receive(c)
  \/ Execute

BridgeSpec == BridgeInit /\ [][BridgeNext]_bridgeVars
-----------------------------------------------------------------------------
(***************************************************************************)
(* No approval outlives the send it was made for: whatever the bridge      *)
(* allows the router to take, the router has taken when the send function  *)
(* returns, also when the token sent is the token of the fee.              *)
(***************************************************************************)
ApprovalsSpent ==
  \A c \in Chains, t \in Tokens : bridge[c].allowance[t] = 0

(***************************************************************************)
(* LINK is never sent by a message that pays a fee in LINK: the approval   *)
(* of the amount has replaced that of the fee, so that it is short by the  *)
(* fee when the router takes the tokens, and sendMessagePayLINK reverts.   *)
(***************************************************************************)
LinkNotSentForLink ==
  \A i \in 1..Len(messages) :
    messages[i].token = Link => messages[i].linkFee = 0

(***************************************************************************)
(* Tokens are neither lost nor made between the chains: what the bridges   *)
(* hold, what is under way (sent or failed), and what has left them is     *)
(* always what they held at first.  A message is credited once, however    *)
(* late, and however often it failed before (_ccipReceive, the send and    *)
(* the withdraw functions).                                                *)
(***************************************************************************)
UnderWay(t) ==
  {i \in 1..Len(messages) : messages[i].token = t /\ messages[i].state # "executed"}

Held(t) == [c \in Chains |-> bridge[c].held[t]]

Carried(t) ==
  [i \in 1..MaxMessages |-> IF i \in UnderWay(t) THEN messages[i].amount ELSE 0]

TokensConserved ==
  \A t \in Tokens :
    SumFunctionOnSet(Held(t), Chains) + SumFunctionOnSet(Carried(t), 1..MaxMessages)
      + paid[t]
    = SumFunctionOnSet(Funds, Chains)

(***************************************************************************)
(* What a bridge shows as the last received message is one that was sent   *)
(* to it and executed (getLastReceivedMessageDetails).                     *)
(***************************************************************************)
LastWasReceived ==
  \A c \in Chains :
    bridge[c].last # 0 =>
      /\ messages[bridge[c].last].receiver = c
      /\ messages[bridge[c].last].state = "executed"
=============================================================================
