---------------------------- MODULE BridgeProofs ----------------------------
(***************************************************************************)
(* The bridges and the messages between them, for any number of chains,    *)
(* tokens and messages: the inductive invariant, with the proof that the   *)
(* bridges start in it and that each of their steps keeps it.              *)
(***************************************************************************)
EXTENDS TokenBridge, InductionLemmas

(***************************************************************************)
(* The storage and the holdings of a bridge, among the chains C and with   *)
(* the tokens T.                                                           *)
(***************************************************************************)
Addresses == People \cup Nominees \cup Owners \cup {Creator, NoAddress}

\* What a bridge stores.
BridgeState(C, T) ==
  [owner : Addresses, pending : Addresses, app : Addresses,
   destinations : SUBSET C, sources : SUBSET C, senders : SUBSET C,
   eth : Nat, held : [T -> Nat], allowance : [T -> Nat], last : Nat]

(***************************************************************************)
(* An approval, and what the router takes of it, change the allowance and  *)
(* the holdings of that token alone.                                       *)
(***************************************************************************)
Allowed(b, t, amount) == [b EXCEPT !.allowance[t] = amount]

\* What the router leaves of an approval and of the holdings.
Drawn(b, t, amount) == [b EXCEPT !.allowance[t] = @ - amount, !.held[t] = @ - amount]

(***************************************************************************)
(* An approval sets one allowance.                                         *)
(***************************************************************************)
LEMMA Approved ==
  ASSUME NEW C, NEW T, NEW b \in BridgeState(C, T), NEW t \in T, NEW amount \in Nat
  PROVE  LET d == Allowed(b, t, amount)
         IN  /\ d \in BridgeState(C, T)
             /\ d.owner = b.owner /\ d.held = b.held /\ d.last = b.last /\ d.eth = b.eth
             /\ \A x \in T : d.allowance[x] = IF x = t THEN amount ELSE b.allowance[x]
BY DEF BridgeState, Allowed

(***************************************************************************)
(* An approval moves nothing.                                              *)
(***************************************************************************)
LEMMA ApprovalHolds ==
  ASSUME NEW C, NEW T, NEW b \in BridgeState(C, T), NEW t \in T, NEW amount \in Nat
  PROVE  Allowed(b, t, amount).held = b.held
BY Approved

(***************************************************************************)
(* What the router takes is off the allowance and off the holdings.        *)
(***************************************************************************)
LEMMA Taken ==
  ASSUME NEW C, NEW T, NEW b \in BridgeState(C, T), NEW t \in T, NEW amount \in Nat,
         amount <= b.allowance[t], amount <= b.held[t]
  PROVE  LET d == Drawn(b, t, amount)
         IN  /\ d \in BridgeState(C, T)
             /\ d.owner = b.owner /\ d.last = b.last /\ d.eth = b.eth
             /\ \A x \in T : d.held[x] = b.held[x] - (IF x = t THEN amount ELSE 0)
             /\ \A x \in T : d.allowance[x] = b.allowance[x] - (IF x = t THEN amount ELSE 0)
<1>1. /\ [b.held EXCEPT ![t] = @ - amount] \in [T -> Nat]
      /\ [b.allowance EXCEPT ![t] = @ - amount] \in [T -> Nat]
      /\ b.held \in [T -> Nat] /\ b.allowance \in [T -> Nat]
  BY DEF BridgeState
<1> DEFINE d == Drawn(b, t, amount)
<1>2. /\ d \in BridgeState(C, T)
      /\ d.owner = b.owner /\ d.last = b.last /\ d.eth = b.eth
      /\ d.held = [b.held EXCEPT ![t] = @ - amount]
      /\ d.allowance = [b.allowance EXCEPT ![t] = @ - amount]
  BY Zenon, <1>1 DEF BridgeState, Drawn
<1> HIDE DEF d
<1>3. \A x \in T : d.held[x] = b.held[x] - (IF x = t THEN amount ELSE 0)
  BY <1>1, <1>2
<1>4. \A x \in T : d.allowance[x] = b.allowance[x] - (IF x = t THEN amount ELSE 0)
  BY <1>1, <1>2
<1> QED
  BY <1>2, <1>3, <1>4 DEF d

(***************************************************************************)
(* The storage of a bridge after sendMessagePayLINK: the approvals of the  *)
(* fee and of the amount have both been spent, which for LINK itself they  *)
(* only can if the fee is 0.                                               *)
(***************************************************************************)
PaidLINK(b, link, t, amount, cost) ==
  Drawn(Drawn(Allowed(Allowed(b, link, cost), t, amount), link, cost), t, amount)

\* The router can take the fee, and the amount after it.
MayPayLINK(b, link, t, amount, cost) ==
  LET b2 == Allowed(Allowed(b, link, cost), t, amount)
      b3 == Drawn(b2, link, cost)
  IN  /\ cost <= b2.allowance[link] /\ cost <= b2.held[link]
      /\ amount <= b3.allowance[t] /\ amount <= b3.held[t]

(***************************************************************************)
(* A send that pays in LINK leaves no allowance behind, and takes the fee  *)
(* and the amount off the holdings.                                        *)
(***************************************************************************)
LEMMA SentPayLINK ==
  ASSUME NEW C, NEW T, NEW b \in BridgeState(C, T), NEW link \in T, NEW t \in T,
         NEW amount \in Nat, NEW cost \in Nat, MayPayLINK(b, link, t, amount, cost)
  PROVE  LET d == PaidLINK(b, link, t, amount, cost)
         IN  /\ d \in BridgeState(C, T)
             /\ d.owner = b.owner /\ d.last = b.last
             /\ t = link => cost = 0
             /\ \A x \in T : d.allowance[x] = IF x \in {link, t} THEN 0 ELSE b.allowance[x]
             /\ \A x \in T : d.held[x] = b.held[x] - (IF x = link THEN cost ELSE 0)
                                                    - (IF x = t THEN amount ELSE 0)
<1> DEFINE b1 == Allowed(b, link, cost)
           b2 == Allowed(b1, t, amount)
           b3 == Drawn(b2, link, cost)
           b4 == Drawn(b3, t, amount)
<1>1. /\ cost <= b2.allowance[link] /\ cost <= b2.held[link]
      /\ amount <= b3.allowance[t] /\ amount <= b3.held[t]
  BY DEF MayPayLINK
<1>2. /\ b1 \in BridgeState(C, T) /\ b1.owner = b.owner /\ b1.last = b.last
      /\ b1.held = b.held
      /\ \A x \in T : b1.allowance[x] = IF x = link THEN cost ELSE b.allowance[x]
  BY Approved
<1> HIDE DEF b1
<1>3. /\ b2 \in BridgeState(C, T) /\ b2.owner = b.owner /\ b2.last = b.last
      /\ b2.held = b.held
      /\ \A x \in T : b2.allowance[x] = IF x = t THEN amount ELSE b1.allowance[x]
  BY <1>2, Approved
<1> HIDE DEF b2
<1>4. /\ b3 \in BridgeState(C, T) /\ b3.owner = b.owner /\ b3.last = b.last
      /\ \A x \in T : b3.held[x] = b2.held[x] - (IF x = link THEN cost ELSE 0)
      /\ \A x \in T : b3.allowance[x] = b2.allowance[x] - (IF x = link THEN cost ELSE 0)
  BY <1>1, <1>3, Taken
<1> HIDE DEF b3
<1>5. /\ b4 \in BridgeState(C, T) /\ b4.owner = b.owner /\ b4.last = b.last
      /\ \A x \in T : b4.held[x] = b3.held[x] - (IF x = t THEN amount ELSE 0)
      /\ \A x \in T : b4.allowance[x] = b3.allowance[x] - (IF x = t THEN amount ELSE 0)
  BY <1>1, <1>4, Taken
<1>6. PaidLINK(b, link, t, amount, cost) = b4
  BY DEF PaidLINK, b1, b2, b3
<1> HIDE DEF b4
<1>7. b.held \in [T -> Nat] /\ b.allowance \in [T -> Nat]
  BY DEF BridgeState
<1>8. t = link => cost = 0
  BY <1>1, <1>2, <1>3, <1>4, <1>7
<1>9. \A x \in T : b4.allowance[x] = IF x \in {link, t} THEN 0 ELSE b.allowance[x]
  BY <1>2, <1>3, <1>4, <1>5, <1>7, <1>8
<1>10. \A x \in T : b4.held[x] = b.held[x] - (IF x = link THEN cost ELSE 0)
                                          - (IF x = t THEN amount ELSE 0)
  BY <1>2, <1>3, <1>4, <1>5, <1>7
<1> QED
  BY <1>5, <1>6, <1>8, <1>9, <1>10

(***************************************************************************)
(* The same for sendMessagePayNative, whose fee is paid in ETH.            *)
(***************************************************************************)
PaidNative(b, t, amount, cost) ==
  [Drawn(Allowed(b, t, amount), t, amount) EXCEPT !.eth = @ - cost]

(***************************************************************************)
(* A send that pays in ETH leaves no allowance, and takes the amount.      *)
(***************************************************************************)
LEMMA SentPayNative ==
  ASSUME NEW C, NEW T, NEW b \in BridgeState(C, T), NEW t \in T,
         NEW amount \in Nat, NEW cost \in Nat, cost <= b.eth, amount <= b.held[t]
  PROVE  LET d == PaidNative(b, t, amount, cost)
         IN  /\ d \in BridgeState(C, T)
             /\ d.owner = b.owner /\ d.last = b.last
             /\ \A x \in T : d.allowance[x] = IF x = t THEN 0 ELSE b.allowance[x]
             /\ \A x \in T : d.held[x] = b.held[x] - (IF x = t THEN amount ELSE 0)
<1> DEFINE b1 == Allowed(b, t, amount)
           b2 == Drawn(b1, t, amount)
           b3 == [b2 EXCEPT !.eth = @ - cost]
<1>0. b.held \in [T -> Nat] /\ b.allowance \in [T -> Nat]
  BY DEF BridgeState
<1>1. /\ b1 \in BridgeState(C, T) /\ b1.owner = b.owner /\ b1.last = b.last
      /\ b1.held = b.held /\ b1.eth = b.eth
      /\ \A x \in T : b1.allowance[x] = IF x = t THEN amount ELSE b.allowance[x]
  BY SMTT(60) DEF BridgeState, Allowed
<1> HIDE DEF b1
<1>2. amount <= b1.allowance[t] /\ amount <= b1.held[t]
  BY <1>0, <1>1
<1>3. /\ b2 \in BridgeState(C, T) /\ b2.owner = b.owner /\ b2.last = b.last
      /\ b2.eth = b.eth
      /\ \A x \in T : b2.held[x] = b1.held[x] - (IF x = t THEN amount ELSE 0)
      /\ \A x \in T : b2.allowance[x] = b1.allowance[x] - (IF x = t THEN amount ELSE 0)
  BY <1>1, <1>2, Taken
<1> HIDE DEF b2
<1>4. /\ b3 \in BridgeState(C, T) /\ b3.owner = b.owner /\ b3.last = b.last
      /\ b3.held = b2.held /\ b3.allowance = b2.allowance
  BY <1>3 DEF BridgeState
<1>5. PaidNative(b, t, amount, cost) = b3
  BY DEF PaidNative, b1, b2
<1> HIDE DEF b3
<1>6. \A x \in T : b3.allowance[x] = IF x = t THEN 0 ELSE b.allowance[x]
  BY <1>0, <1>1, <1>3, <1>4
<1>7. \A x \in T : b3.held[x] = b.held[x] - (IF x = t THEN amount ELSE 0)
  BY <1>0, <1>1, <1>3, <1>4
<1> QED
  BY <1>4, <1>5, <1>6, <1>7
-----------------------------------------------------------------------------
(***************************************************************************)
(* The bridges.  A message is under way until it is executed; last names a *)
(* message that was.                                                       *)
(***************************************************************************)
MessageState ==
  [from : Chains, to : Chains, receiver : Receivers \cup Chains, token : Tokens,
   amount : Nat, linkFee : Nat, state : {"sent", "failed", "executed"}]

\* The types of the bridges, the messages and the account of what left.
BridgesTyped ==
  /\ bridge \in [Chains -> BridgeState(Chains, Tokens)]
  /\ messages \in Seq(MessageState) /\ Len(messages) <= MaxMessages
  /\ paid \in [Tokens -> Nat]
  /\ \A c \in Chains : bridge[c].last <= Len(messages)

\* The inductive invariant of the bridges.
BridgeInv ==
  /\ BridgesTyped
  /\ ApprovalsSpent /\ LinkNotSentForLink
  /\ TokensConserved /\ LastWasReceived

(***************************************************************************)
(* What all bridges hold of a token changes by what one of them gains or   *)
(* loses, and what the messages carry by what one of them does.            *)
(***************************************************************************)
LEMMA HeldChange ==
  ASSUME BridgesTyped, NEW c \in Chains, NEW d \in BridgeState(Chains, Tokens),
         bridge' = [bridge EXCEPT ![c] = d], NEW t \in Tokens
  PROVE  /\ SumFunctionOnSet(Held(t), Chains) \in Int
         /\ SumFunctionOnSet(Held(t)', Chains)
              = SumFunctionOnSet(Held(t), Chains) + d.held[t] - bridge[c].held[t]
<1> DEFINE f == [x \in Chains |-> bridge[x].held[t]]
           g == [x \in Chains |-> bridge'[x].held[t]]
<1>1. Held(t) = f /\ Held(t)' = g
  BY DEF Held
<1>2. \A b \in BridgeState(Chains, Tokens) : b.held[t] \in Nat
  BY DEF BridgeState
<1>3. \A x \in Chains : /\ bridge[x] \in BridgeState(Chains, Tokens)
                        /\ bridge'[x] = IF x = c THEN d ELSE bridge[x]
  BY DEF BridgesTyped
<1>4. /\ f \in [Chains -> Int] /\ g \in [Chains -> Int]
      /\ \A x \in Chains : x # c => g[x] = f[x]
      /\ f[c] = bridge[c].held[t] /\ g[c] = d.held[t]
  BY <1>2, <1>3
<1>5. IsFiniteSet(Chains)
  BY BridgeAssumption
<1> HIDE DEF f, g
<1>6. SumFunctionOnSet(g, Chains) = SumFunctionOnSet(f, Chains) + g[c] - f[c]
  BY <1>4, <1>5, SumChange
<1>7. SumFunctionOnSet(f, Chains) \in Int
  BY <1>4, <1>5, SumType
<1> QED
  BY <1>1, <1>4, <1>6, <1>7

\* What a message carries of a token.
CarriedBy(m, t) == IF m.token = t /\ m.state # "executed" THEN m.amount ELSE 0

(***************************************************************************)
(* Carried, position by position.                                          *)
(***************************************************************************)
LEMMA CarriedIs ==
  ASSUME messages \in Seq(MessageState), NEW t, NEW i \in 1..MaxMessages
  PROVE  Carried(t)[i]
           = IF i <= Len(messages) THEN CarriedBy(messages[i], t) ELSE 0
<1>1. i \in Nat /\ Len(messages) \in Nat /\ i >= 1
  OBVIOUS
<1> QED
  BY <1>1 DEF Carried, UnderWay, CarriedBy

(***************************************************************************)
(* What is under way is a number.                                          *)
(***************************************************************************)
LEMMA CarriedTotal ==
  ASSUME BridgesTyped, NEW t \in Tokens
  PROVE  SumFunctionOnSet(Carried(t), 1..MaxMessages) \in Int
<1>1. IsFiniteSet(1..MaxMessages)
  BY BridgeAssumption, FS_Interval
<1>2. messages \in Seq(MessageState)
  BY DEF BridgesTyped
<1>4. \A i \in 1..Len(messages) : messages[i] \in MessageState
  BY <1>2
<1>5. \A m \in MessageState : m.amount \in Nat
  BY DEF MessageState
<1>3. Carried(t) \in [1..MaxMessages -> Int]
  BY <1>4, <1>5 DEF Carried, UnderWay
<1> QED
  BY Zenon, <1>1, <1>3, SumType

(***************************************************************************)
(* What is under way changes by what one message carries.                  *)
(***************************************************************************)
LEMMA CarriedChange ==
  ASSUME messages \in Seq(MessageState), messages' \in Seq(MessageState),
         NEW i \in 1..MaxMessages,
         \A k \in 1..MaxMessages : k # i =>
            /\ k <= Len(messages) <=> k <= Len(messages')
            /\ k <= Len(messages) => messages'[k] = messages[k],
         NEW t \in Tokens
  PROVE  /\ SumFunctionOnSet(Carried(t), 1..MaxMessages) \in Int
         /\ SumFunctionOnSet(Carried(t)', 1..MaxMessages)
              = SumFunctionOnSet(Carried(t), 1..MaxMessages)
                  + (IF i <= Len(messages') THEN CarriedBy(messages'[i], t) ELSE 0)
                  - (IF i <= Len(messages) THEN CarriedBy(messages[i], t) ELSE 0)
<1> DEFINE S == 1..MaxMessages
           f == [k \in S |-> IF k <= Len(messages) THEN CarriedBy(messages[k], t) ELSE 0]
           g == [k \in S |-> IF k <= Len(messages') THEN CarriedBy(messages'[k], t) ELSE 0]
<1>0. IsFiniteSet(S)
  <2>1. 1 \in Int /\ MaxMessages \in Int
    BY BridgeAssumption
  <2> QED
    BY <2>1, FS_Interval
<1>1. Carried(t) = f
  BY CarriedIs DEF Carried
<1>2. Carried(t)' = g
  <2>1. ASSUME NEW k \in S
        PROVE  k \in UnderWay(t)' <=>
                 k <= Len(messages') /\ messages'[k].token = t /\ messages'[k].state # "executed"
    BY DEF UnderWay
  <2> QED
    BY <2>1 DEF Carried, CarriedBy
<1>3. \A m \in MessageState : CarriedBy(m, t) \in Nat
  BY DEF MessageState, CarriedBy
<1>4. /\ \A k \in S : k <= Len(messages) => messages[k] \in MessageState
      /\ \A k \in S : k <= Len(messages') => messages'[k] \in MessageState
  OBVIOUS
<1>5. /\ f \in [S -> Int] /\ g \in [S -> Int]
      /\ \A k \in S : k # i => g[k] = f[k]
  BY <1>3, <1>4
<1>6. /\ f[i] = IF i <= Len(messages) THEN CarriedBy(messages[i], t) ELSE 0
      /\ g[i] = IF i <= Len(messages') THEN CarriedBy(messages'[i], t) ELSE 0
  OBVIOUS
<1> HIDE DEF f, g, S
<1>7. SumFunctionOnSet(g, S) = SumFunctionOnSet(f, S) + g[i] - f[i]
  BY ZenonT(120), <1>0, <1>5, SumChange DEF S
<1>8. SumFunctionOnSet(f, S) \in Int
  BY <1>0, <1>5, SumType
<1> QED
  BY <1>1, <1>2, <1>6, <1>7, <1>8 DEF S

(***************************************************************************)
(* What conservation asks of a step, token by token.                       *)
(***************************************************************************)
LEMMA Conserved ==
  ASSUME BridgeInv, NEW t \in Tokens,
         NEW held \in Int, NEW carried \in Int, NEW out \in Int,
         SumFunctionOnSet(Held(t), Chains) \in Int,
         SumFunctionOnSet(Carried(t), 1..MaxMessages) \in Int,
         SumFunctionOnSet(Held(t)', Chains)
           = SumFunctionOnSet(Held(t), Chains) + held,
         SumFunctionOnSet(Carried(t)', 1..MaxMessages)
           = SumFunctionOnSet(Carried(t), 1..MaxMessages) + carried,
         paid'[t] = paid[t] + out,
         held + carried + out = 0
  PROVE  SumFunctionOnSet(Held(t)', Chains)
           + SumFunctionOnSet(Carried(t)', 1..MaxMessages) + paid'[t]
         = SumFunctionOnSet(Funds, Chains)
<1>1. paid[t] \in Nat
  BY DEF BridgeInv, BridgesTyped
<1>2. SumFunctionOnSet(Held(t), Chains)
        + SumFunctionOnSet(Carried(t), 1..MaxMessages) + paid[t]
      = SumFunctionOnSet(Funds, Chains)
  BY DEF BridgeInv, TokensConserved
<1> QED
  BY <1>1, <1>2

(***************************************************************************)
(* A call that leaves the tokens and the messages alone: allow-lists,      *)
(* owners, the app, ETH.                                                   *)
(***************************************************************************)
LEMMA EditKeeps ==
  ASSUME BridgeInv, NEW c \in Chains, NEW d \in BridgeState(Chains, Tokens),
         bridge' = [bridge EXCEPT ![c] = d], messages' = messages, paid' = paid,
         d.held = bridge[c].held, d.allowance = bridge[c].allowance, d.last = bridge[c].last
  PROVE  BridgeInv' /\ bridge'[c] = d
<1>1. \A x \in Chains : /\ bridge'[x] \in BridgeState(Chains, Tokens)
                        /\ bridge'[x].held = bridge[x].held
                        /\ bridge'[x].allowance = bridge[x].allowance
                        /\ bridge'[x].last = bridge[x].last
                        /\ x = c => bridge'[x] = d
  BY DEF BridgeInv, BridgesTyped
<1>2. BridgesTyped'
  BY <1>1 DEF BridgeInv, BridgesTyped
<1>3. ApprovalsSpent'
  BY <1>1 DEF BridgeInv, ApprovalsSpent
<1>4. LinkNotSentForLink'
  BY DEF BridgeInv, LinkNotSentForLink
<1>5. LastWasReceived'
  BY <1>1 DEF BridgeInv, LastWasReceived
<1>6. TokensConserved'
  <2>1. \A t \in Tokens : Held(t)' = Held(t)
    BY <1>1 DEF Held
  <2>2. \A t \in Tokens : Carried(t)' = Carried(t)
    BY DEF Carried, UnderWay
  <2> QED
    BY <2>1, <2>2 DEF BridgeInv, TokensConserved
<1> QED
  BY <1>1, <1>2, <1>3, <1>4, <1>5, <1>6 DEF BridgeInv

(***************************************************************************)
(* A withdrawal of all of a token.                                         *)
(***************************************************************************)
LEMMA TakeAllKeeps ==
  ASSUME BridgeInv, NEW c \in Chains, NEW k \in Tokens, TakeAll(c, k)
  PROVE  BridgeInv'
<1> DEFINE b == bridge[c]
           d == [b EXCEPT !.held[k] = 0]
<1>0. b \in BridgeState(Chains, Tokens)
  BY DEF BridgeInv, BridgesTyped
<1>1. /\ bridge' = [bridge EXCEPT ![c] = d] /\ messages' = messages
      /\ paid' = [paid EXCEPT ![k] = @ + b.held[k]]
  BY DEF TakeAll
<1>2. BridgesTyped /\ bridge \in [Chains -> BridgeState(Chains, Tokens)]
  BY DEF BridgeInv, BridgesTyped
<1> HIDE DEF b
<1>3. /\ d \in BridgeState(Chains, Tokens) /\ d.allowance = b.allowance /\ d.last = b.last
      /\ b.held \in [Tokens -> Nat]
      /\ \A t \in Tokens : d.held[t] = IF t = k THEN 0 ELSE b.held[t]
  BY <1>0 DEF BridgeState
<1> HIDE DEF d
<1>4. \A x \in Chains : /\ bridge'[x] \in BridgeState(Chains, Tokens)
                        /\ bridge'[x].allowance = bridge[x].allowance
                        /\ bridge'[x].last = bridge[x].last
  BY <1>1, <1>2, <1>3 DEF b
<1>5. /\ paid' \in [Tokens -> Nat]
      /\ \A t \in Tokens : paid'[t] = paid[t] + (IF t = k THEN b.held[k] ELSE 0)
  BY <1>1, <1>2, <1>3 DEF BridgesTyped
<1>6. bridge' \in [Chains -> BridgeState(Chains, Tokens)]
  BY <1>1, <1>2, <1>3
<1>7. BridgesTyped'
  BY <1>1, <1>2, <1>4, <1>5, <1>6 DEF BridgesTyped
<1>8. ApprovalsSpent'
  BY <1>4 DEF BridgeInv, ApprovalsSpent
<1>9. LinkNotSentForLink'
  BY <1>1 DEF BridgeInv, LinkNotSentForLink
<1>10. LastWasReceived'
  BY <1>1, <1>4 DEF BridgeInv, LastWasReceived
<1>11. TokensConserved'
  <2> SUFFICES ASSUME NEW t \in Tokens
               PROVE  SumFunctionOnSet(Held(t)', Chains)
                        + SumFunctionOnSet(Carried(t)', 1..MaxMessages) + paid'[t]
                      = SumFunctionOnSet(Funds, Chains)
    BY DEF TokensConserved
  <2> DEFINE gain == d.held[t] - b.held[t]
  <2>1. /\ SumFunctionOnSet(Held(t), Chains) \in Int
        /\ SumFunctionOnSet(Held(t)', Chains)
             = SumFunctionOnSet(Held(t), Chains) + d.held[t] - b.held[t]
    BY Zenon, <1>1, <1>2, <1>3, HeldChange DEF b
  <2>2. Carried(t)' = Carried(t)
    BY <1>1 DEF Carried, UnderWay
  <2>3. SumFunctionOnSet(Carried(t), 1..MaxMessages) \in Int
    BY <1>2, CarriedTotal
  <2>4. d.held[t] \in Nat /\ b.held[t] \in Nat /\ gain \in Int /\ -gain \in Int
    BY <1>3 DEF BridgeState
  <2>5. paid'[t] = paid[t] + (-gain)
    BY <1>3, <1>5
  <2>6. SumFunctionOnSet(Held(t)', Chains)
          = SumFunctionOnSet(Held(t), Chains) + gain
    BY <2>1, <2>4
  <2>7. SumFunctionOnSet(Carried(t)', 1..MaxMessages)
          = SumFunctionOnSet(Carried(t), 1..MaxMessages) + 0
    BY <2>2, <2>3
  <2>8. gain + 0 + (-gain) = 0
    BY <2>4
  <2> HIDE DEF gain
  <2> QED
    BY <2>1, <2>3, <2>4, <2>5, <2>6, <2>7, <2>8, Conserved
<1> QED
  BY <1>7, <1>8, <1>9, <1>10, <1>11 DEF BridgeInv

(***************************************************************************)
(* A send: a bridge pays an amount and a fee, the message carries the      *)
(* amount, and the fee has left.                                           *)
(***************************************************************************)
LEMMA SendKeeps ==
  ASSUME BridgeInv, NEW c \in Chains, NEW d \in BridgeState(Chains, Tokens),
         NEW m \in MessageState, m.state = "sent", m.token = Link => m.linkFee = 0,
         Len(messages) < MaxMessages,
         bridge' = [bridge EXCEPT ![c] = d], messages' = Append(messages, m),
         paid' \in [Tokens -> Nat],
         \A t \in Tokens : paid'[t] = paid[t] + (IF t = Link THEN m.linkFee ELSE 0),
         d.last = bridge[c].last, \A t \in Tokens : d.allowance[t] = 0,
         \A t \in Tokens : d.held[t] = bridge[c].held[t]
                                        - (IF t = Link THEN m.linkFee ELSE 0)
                                        - (IF t = m.token THEN m.amount ELSE 0)
  PROVE  BridgeInv'
<1> DEFINE n == Len(messages) + 1
<1>1. /\ BridgesTyped /\ bridge \in [Chains -> BridgeState(Chains, Tokens)]
      /\ messages \in Seq(MessageState) /\ \A x \in Chains : bridge[x].last <= Len(messages)
  BY DEF BridgeInv, BridgesTyped
<1>2. /\ messages' \in Seq(MessageState) /\ Len(messages) \in Nat
      /\ Len(messages') = n /\ messages'[n] = m
      /\ \A k \in 1..Len(messages) : messages'[k] = messages[k]
  BY <1>1
<1>3. n \in 1..MaxMessages /\ MaxMessages \in Nat
  BY <1>2, BridgeAssumption
<1>4. /\ bridge' \in [Chains -> BridgeState(Chains, Tokens)]
      /\ \A x \in Chains : bridge'[x] = IF x = c THEN d ELSE bridge[x]
      /\ \A x \in Chains : bridge'[x].last = bridge[x].last
  BY <1>1
<1>5. \A x \in Chains : bridge[x].last \in Nat
  BY <1>1 DEF BridgeState
<1>6. m.linkFee \in Nat /\ m.amount \in Nat /\ m.token \in Tokens
  BY DEF MessageState
<1>7. BridgesTyped'
  BY <1>1, <1>2, <1>3, <1>4, <1>5 DEF BridgesTyped
<1>8. ApprovalsSpent'
  BY <1>4 DEF BridgeInv, ApprovalsSpent
<1>9. LinkNotSentForLink'
  <2>1. ASSUME NEW k \in 1..Len(messages'), messages'[k].token = Link
        PROVE  messages'[k].linkFee = 0
    <3>1. CASE k = n
      BY <1>2, <2>1, <3>1
    <3>2. CASE k # n
      <4>1. k \in 1..Len(messages)
        BY <1>2, <3>2
      <4> QED
        BY <1>2, <2>1, <4>1 DEF BridgeInv, LinkNotSentForLink
    <3> QED
      BY <3>1, <3>2
  <2> QED
    BY <2>1 DEF LinkNotSentForLink
<1>10. LastWasReceived'
  <2>1. ASSUME NEW x \in Chains, bridge'[x].last # 0
        PROVE  /\ messages'[bridge'[x].last].receiver = x
               /\ messages'[bridge'[x].last].state = "executed"
    <3>1. bridge[x].last \in 1..Len(messages) /\ bridge'[x].last = bridge[x].last
      BY <1>1, <1>2, <1>4, <1>5, <2>1
    <3> QED
      BY <1>2, <2>1, <3>1 DEF BridgeInv, LastWasReceived
  <2> QED
    BY Zenon, <2>1 DEF LastWasReceived
<1>11. TokensConserved'
  <2> SUFFICES ASSUME NEW t \in Tokens
               PROVE  SumFunctionOnSet(Held(t)', Chains)
                        + SumFunctionOnSet(Carried(t)', 1..MaxMessages) + paid'[t]
                      = SumFunctionOnSet(Funds, Chains)
    BY DEF TokensConserved
  <2> DEFINE out == IF t = Link THEN m.linkFee ELSE 0
             load == IF t = m.token THEN m.amount ELSE 0
  <2>1. out \in Nat /\ load \in Nat
    BY <1>6
  <2>2. /\ SumFunctionOnSet(Held(t), Chains) \in Int
        /\ SumFunctionOnSet(Held(t)', Chains)
             = SumFunctionOnSet(Held(t), Chains) + d.held[t] - bridge[c].held[t]
    BY Zenon, <1>1, HeldChange
  <2>3. \A k \in 1..MaxMessages : k # n =>
            /\ k <= Len(messages) <=> k <= Len(messages')
            /\ k <= Len(messages) => messages'[k] = messages[k]
    BY <1>2, <1>3
  <2>4. /\ SumFunctionOnSet(Carried(t), 1..MaxMessages) \in Int
        /\ SumFunctionOnSet(Carried(t)', 1..MaxMessages)
             = SumFunctionOnSet(Carried(t), 1..MaxMessages)
                 + (IF n <= Len(messages') THEN CarriedBy(messages'[n], t) ELSE 0)
                 - (IF n <= Len(messages) THEN CarriedBy(messages[n], t) ELSE 0)
    <3> HIDE DEF n
    <3> QED
      BY Zenon, <1>1, <1>2, <1>3, <2>3, CarriedChange
  <2>5. /\ (IF n <= Len(messages') THEN CarriedBy(messages'[n], t) ELSE 0) = load
        /\ (IF n <= Len(messages) THEN CarriedBy(messages[n], t) ELSE 0) = 0
    BY <1>2 DEF CarriedBy
  <2>6. d.held[t] - bridge[c].held[t] = -(out + load) /\ d.held[t] \in Nat /\ bridge[c].held[t] \in Nat
    <3>1. d.held[t] \in Nat /\ bridge[c].held[t] \in Nat
      BY <1>1 DEF BridgeState
    <3> QED
      BY <2>1, <3>1
  <2>7. paid'[t] = paid[t] + out
    OBVIOUS
  <2> HIDE DEF out, load
  <2>8. SumFunctionOnSet(Held(t)', Chains)
          = SumFunctionOnSet(Held(t), Chains) + (-(out + load))
    BY <2>1, <2>2, <2>6
  <2>9. SumFunctionOnSet(Carried(t)', 1..MaxMessages)
             = SumFunctionOnSet(Carried(t), 1..MaxMessages) + load
    BY <2>1, <2>4, <2>5
  <2>10. -(out + load) + load + out = 0 /\ -(out + load) \in Int /\ load \in Int /\ out \in Int
    BY <2>1
  <2> QED
    BY ZenonT(60), <2>2, <2>4, <2>7, <2>8, <2>9, <2>10, Conserved
<1> QED
  BY <1>7, <1>8, <1>9, <1>10, <1>11 DEF BridgeInv

(***************************************************************************)
(* A message that is executed, or fails, keeps all but its state, and no   *)
(* longer carries its amount when it was executed.                         *)
(***************************************************************************)
LEMMA MessageMoves ==
  ASSUME BridgesTyped, NEW i \in 1..Len(messages), messages[i].state # "executed",
         NEW to \in {"failed", "executed"}, messages' = [messages EXCEPT ![i].state = to]
  PROVE  /\ messages' \in Seq(MessageState) /\ Len(messages') = Len(messages)
         /\ messages'[i].state = to
         /\ \A k \in 1..Len(messages) :
              /\ messages'[k].token = messages[k].token
              /\ messages'[k].receiver = messages[k].receiver
              /\ messages'[k].linkFee = messages[k].linkFee
              /\ k # i => messages'[k] = messages[k]
         /\ \A t \in Tokens :
              /\ SumFunctionOnSet(Carried(t), 1..MaxMessages) \in Int
              /\ SumFunctionOnSet(Carried(t)', 1..MaxMessages)
                   = SumFunctionOnSet(Carried(t), 1..MaxMessages)
                     - (IF to = "executed" /\ t = messages[i].token THEN messages[i].amount ELSE 0)
<1> DEFINE m == messages[i]
           e == [m EXCEPT !.state = to]
<1>1. messages \in Seq(MessageState) /\ Len(messages) <= MaxMessages
  BY DEF BridgesTyped
<1>2. m \in MessageState /\ Len(messages) \in Nat
  BY <1>1
<1>3. messages' = [messages EXCEPT ![i] = e]
  OBVIOUS
<1>4. m.state # "executed"
  OBVIOUS
<1> HIDE DEF m
<1>5. /\ e \in MessageState /\ e.token = m.token /\ e.receiver = m.receiver
      /\ e.linkFee = m.linkFee /\ e.amount = m.amount /\ e.state = to
      /\ m.amount \in Nat
  BY <1>2 DEF MessageState
<1> HIDE DEF e
<1>6. /\ messages' \in Seq(MessageState) /\ Len(messages') = Len(messages)
      /\ \A k \in 1..Len(messages) : messages'[k] = IF k = i THEN e ELSE messages[k]
  <2>1. messages' = [messages EXCEPT ![i] = e] /\ i \in 1..Len(messages)
    BY Zenon, <1>3
  <2>2. messages' \in Seq(MessageState) /\ Len(messages') = Len(messages)
    BY <1>1, <1>5, <2>1
  <2> QED
    BY <1>1, <2>1, <2>2
<1>7. \A k \in 1..Len(messages) :
        /\ messages'[k].token = messages[k].token
        /\ messages'[k].receiver = messages[k].receiver
        /\ messages'[k].linkFee = messages[k].linkFee
        /\ k # i => messages'[k] = messages[k]
  BY <1>5, <1>6 DEF m
<1>8. ASSUME NEW t \in Tokens
      PROVE  /\ SumFunctionOnSet(Carried(t), 1..MaxMessages) \in Int
             /\ SumFunctionOnSet(Carried(t)', 1..MaxMessages)
                  = SumFunctionOnSet(Carried(t), 1..MaxMessages)
                    - (IF to = "executed" /\ t = m.token THEN m.amount ELSE 0)
  <2>1. \A k \in 1..MaxMessages : k # i =>
            /\ k <= Len(messages) <=> k <= Len(messages')
            /\ k <= Len(messages) => messages'[k] = messages[k]
    BY <1>2, <1>6
  <2>2. i \in 1..MaxMessages
    BY <1>1, <1>2, BridgeAssumption
  <2>3. /\ SumFunctionOnSet(Carried(t), 1..MaxMessages) \in Int
        /\ SumFunctionOnSet(Carried(t)', 1..MaxMessages)
             = SumFunctionOnSet(Carried(t), 1..MaxMessages)
                 + (IF i <= Len(messages') THEN CarriedBy(messages'[i], t) ELSE 0)
                 - (IF i <= Len(messages) THEN CarriedBy(messages[i], t) ELSE 0)
    BY <1>1, <1>6, <2>1, <2>2, CarriedChange
  <2>4. i <= Len(messages) /\ i <= Len(messages') /\ messages'[i] = e
    BY <1>2, <1>6
  <2>5. /\ CarriedBy(e, t) = IF to # "executed" /\ t = m.token THEN m.amount ELSE 0
        /\ CarriedBy(m, t) = IF t = m.token THEN m.amount ELSE 0
    BY <1>4, <1>5 DEF CarriedBy
  <2>6. SumFunctionOnSet(Carried(t)', 1..MaxMessages)
         = SumFunctionOnSet(Carried(t), 1..MaxMessages) + CarriedBy(e, t) - CarriedBy(m, t)
    BY <2>3, <2>4 DEF m
  <2> QED
    BY <1>5, <2>3, <2>5, <2>6
<1> QED
  BY <1>5, <1>6, <1>7, <1>8 DEF m

(***************************************************************************)
(* The invariant is kept when a message moves, when what it carried is     *)
(* credited to a bridge or has left.                                       *)
(***************************************************************************)
LEMMA ExecutionKeeps ==
  ASSUME BridgeInv, NEW i \in 1..Len(messages), messages[i].state # "executed",
         NEW to \in {"failed", "executed"}, messages' = [messages EXCEPT ![i].state = to],
         NEW c \in Chains, NEW d \in BridgeState(Chains, Tokens),
         bridge' = [bridge EXCEPT ![c] = d], paid' \in [Tokens -> Nat],
         d.allowance = bridge[c].allowance,
         \/ d.last = bridge[c].last
         \/ d.last = i /\ to = "executed" /\ messages[i].receiver = c,
         \A t \in Tokens :
           (d.held[t] - bridge[c].held[t]) + (paid'[t] - paid[t])
             = IF to = "executed" /\ t = messages[i].token THEN messages[i].amount ELSE 0
  PROVE  BridgeInv'
<1>1. /\ BridgesTyped /\ bridge \in [Chains -> BridgeState(Chains, Tokens)]
      /\ messages \in Seq(MessageState) /\ Len(messages) <= MaxMessages
      /\ paid \in [Tokens -> Nat]
      /\ \A x \in Chains : bridge[x].last <= Len(messages)
  BY DEF BridgeInv, BridgesTyped
<1>2. /\ messages' \in Seq(MessageState) /\ Len(messages') = Len(messages)
      /\ messages'[i].state = to
      /\ \A k \in 1..Len(messages) :
           /\ messages'[k].token = messages[k].token
           /\ messages'[k].receiver = messages[k].receiver
           /\ messages'[k].linkFee = messages[k].linkFee
           /\ k # i => messages'[k] = messages[k]
  BY Zenon, <1>1, MessageMoves
<1>3. /\ bridge' \in [Chains -> BridgeState(Chains, Tokens)]
      /\ \A x \in Chains : bridge'[x] = IF x = c THEN d ELSE bridge[x]
      /\ \A x \in Chains : bridge'[x].allowance = bridge[x].allowance
  BY <1>1
<1>4. Len(messages) \in Nat /\ \A x \in Chains : bridge[x].last \in Nat
  BY <1>1 DEF BridgeState
<1>5. \A x \in Chains : bridge'[x].last <= Len(messages)
  BY <1>1, <1>3, <1>4
<1>6. BridgesTyped'
  BY <1>1, <1>2, <1>3, <1>5 DEF BridgesTyped
<1>7. ApprovalsSpent'
  BY <1>3 DEF BridgeInv, ApprovalsSpent
<1>8. LinkNotSentForLink'
  BY <1>2 DEF BridgeInv, LinkNotSentForLink
<1>9. LastWasReceived'
  <2>1. ASSUME NEW x \in Chains, bridge'[x].last # 0
        PROVE  /\ messages'[bridge'[x].last].receiver = x
               /\ messages'[bridge'[x].last].state = "executed"
    <3>1. CASE bridge'[x].last = bridge[x].last
      <4>1. bridge[x].last \in 1..Len(messages)
        BY <1>1, <1>4, <2>1, <3>1
      <4>2. /\ messages[bridge[x].last].receiver = x
            /\ messages[bridge[x].last].state = "executed"
        BY <2>1, <3>1 DEF BridgeInv, LastWasReceived
      <4>3. bridge[x].last # i
        BY <4>2
      <4> QED
        BY <1>2, <3>1, <4>1, <4>2, <4>3
    <3>2. CASE bridge'[x].last # bridge[x].last
      <4>1. x = c /\ bridge'[x].last = i /\ to = "executed" /\ messages[i].receiver = c
        BY <1>3, <3>2
      <4> QED
        BY <1>2, <4>1
    <3> QED
      BY <3>1, <3>2
  <2> QED
    BY <2>1 DEF LastWasReceived
<1>0. \A t \in Tokens :
        /\ SumFunctionOnSet(Carried(t), 1..MaxMessages) \in Int
        /\ SumFunctionOnSet(Carried(t)', 1..MaxMessages)
             = SumFunctionOnSet(Carried(t), 1..MaxMessages)
               - (IF to = "executed" /\ t = messages[i].token THEN messages[i].amount ELSE 0)
  BY ZenonT(120), <1>1, MessageMoves
<1>10. TokensConserved'
  <2> SUFFICES ASSUME NEW t \in Tokens
               PROVE  SumFunctionOnSet(Held(t)', Chains)
                        + SumFunctionOnSet(Carried(t)', 1..MaxMessages) + paid'[t]
                      = SumFunctionOnSet(Funds, Chains)
    BY DEF TokensConserved
  <2> DEFINE load == IF to = "executed" /\ t = messages[i].token THEN messages[i].amount ELSE 0
             gain == d.held[t] - bridge[c].held[t]
             out == paid'[t] - paid[t]
  <2>1. /\ SumFunctionOnSet(Held(t), Chains) \in Int
        /\ SumFunctionOnSet(Held(t)', Chains)
             = SumFunctionOnSet(Held(t), Chains) + d.held[t] - bridge[c].held[t]
    BY Zenon, <1>1, HeldChange
  <2>2. /\ SumFunctionOnSet(Carried(t), 1..MaxMessages) \in Int
        /\ SumFunctionOnSet(Carried(t)', 1..MaxMessages)
             = SumFunctionOnSet(Carried(t), 1..MaxMessages) - load
    BY <1>0, Zenon
  <2>3. /\ d.held[t] \in Nat /\ bridge[c].held[t] \in Nat
        /\ paid[t] \in Nat /\ paid'[t] \in Nat
    BY <1>1 DEF BridgeState
  <2>4. gain + out = load
    OBVIOUS
  <2>5. paid'[t] = paid[t] + out /\ gain \in Int /\ out \in Int
    BY SMTT(120), <2>3
  <2>6. SumFunctionOnSet(Held(t)', Chains)
          = SumFunctionOnSet(Held(t), Chains) + gain
    BY <2>1, <2>3
  <2> HIDE DEF gain, out, load
  <2>7. load \in Int /\ -load \in Int /\ gain + (-load) + out = 0
    BY <2>4, <2>5
  <2>8. SumFunctionOnSet(Carried(t)', 1..MaxMessages)
          = SumFunctionOnSet(Carried(t), 1..MaxMessages) + (-load)
    BY <2>2, <2>7
  <2> QED
    BY Zenon, <2>1, <2>2, <2>5, <2>6, <2>7, <2>8, Conserved
<1> QED
  BY <1>6, <1>7, <1>8, <1>9, <1>10 DEF BridgeInv

(***************************************************************************)
(* The bridges start with their funds, and nothing is under way.           *)
(***************************************************************************)
LEMMA BridgeStart ==
  ASSUME BridgeInit
  PROVE  BridgeInv
<1>1. /\ \A c \in Chains : Funds[c] \in Nat
      /\ Funds \in [Chains -> Int] /\ Funds = [c \in Chains |-> Funds[c]]
      /\ NoAddress \in Addresses /\ Creator \in Addresses /\ MaxMessages \in Nat
  BY BridgeAssumption DEF Addresses
<1>2. /\ bridge = [c \in Chains |->
           [owner |-> Creator, pending |-> NoAddress, app |-> NoAddress,
            destinations |-> {}, sources |-> {}, senders |-> {},
            eth |-> Funds[c], held |-> [t \in Tokens |-> Funds[c]],
            allowance |-> [t \in Tokens |-> 0], last |-> 0]]
      /\ messages = <<>> /\ paid = [t \in Tokens |-> 0]
  BY DEF BridgeInit
<1>3. /\ messages \in Seq(MessageState) /\ Len(messages) = 0 /\ paid \in [Tokens -> Nat]
      /\ \A t \in Tokens : paid[t] = 0
  BY <1>2
<1>4. bridge \in [Chains -> BridgeState(Chains, Tokens)]
  BY <1>1, <1>2 DEF BridgeState
<1>5. /\ \A c \in Chains : bridge[c].last = 0
      /\ \A c \in Chains, t \in Tokens : bridge[c].allowance[t] = 0 /\ bridge[c].held[t] = Funds[c]
  BY <1>2
<1>6. BridgesTyped
  BY <1>1, <1>3, <1>4, <1>5 DEF BridgesTyped
<1>7. ApprovalsSpent /\ LinkNotSentForLink /\ LastWasReceived
  BY <1>3, <1>5 DEF ApprovalsSpent, LinkNotSentForLink,
                    LastWasReceived
<1>8. TokensConserved
  <2> SUFFICES ASSUME NEW t \in Tokens
               PROVE  SumFunctionOnSet(Held(t), Chains)
                        + SumFunctionOnSet(Carried(t), 1..MaxMessages) + paid[t]
                      = SumFunctionOnSet(Funds, Chains)
    BY DEF TokensConserved
  <2>1. Held(t) = Funds
    BY <1>1, <1>5 DEF Held
  <2>2. /\ Carried(t) \in [1..MaxMessages -> Int]
        /\ \A i \in 1..MaxMessages : Carried(t)[i] = 0
    BY <1>3 DEF Carried, UnderWay
  <2>3. IsFiniteSet(1..MaxMessages) /\ IsFiniteSet(Chains)
    BY <1>1, BridgeAssumption, FS_Interval
  <2>4. SumFunctionOnSet(Carried(t), 1..MaxMessages) = 0
    BY Zenon, <2>2, <2>3, SumZero
  <2>5. SumFunctionOnSet(Funds, Chains) \in Int
    <3>1. Funds \in [Chains -> Int]
      BY ZenonT(60), <1>1
    <3> QED
      BY <2>3, <3>1, SumType
  <2> QED
    BY <1>3, <2>1, <2>4, <2>5
<1> QED
  BY <1>6, <1>7, <1>8 DEF BridgeInv

(***************************************************************************)
(* The calls that move no token: the owner's lists, the owner, the app, and*)
(* ETH.                                                                    *)
(***************************************************************************)
LEMMA EditsKeep ==
  ASSUME BridgeInv, NEW c \in Chains,
         \/ \E sender \in People : Administer(c, sender) \/ Withdraw(c, sender)
         \/ Receive(c)
  PROVE  BridgeInv' /\ bridge'[c].owner \in People \cup {bridge[c].owner}
<1> DEFINE b == bridge[c]
           Kept == BridgeInv' /\ bridge'[c].owner \in People \cup {b.owner}
<1>0. /\ b \in BridgeState(Chains, Tokens) /\ NoAddress \in Addresses
      /\ \A p \in People \cup Nominees \cup Owners : p \in Addresses
  BY DEF BridgeInv, BridgesTyped, Addresses
<1>1. ASSUME NEW sender \in People, NEW to \in Nominees, TransferOwnership(c, sender, to)
      PROVE  Kept
  <2> DEFINE d == [b EXCEPT !.pending = to]
  <2>1. bridge' = [bridge EXCEPT ![c] = d] /\ messages' = messages /\ paid' = paid
    BY <1>1 DEF TransferOwnership
  <2> HIDE DEF b
  <2>2. /\ d \in BridgeState(Chains, Tokens)
        /\ d.held = b.held /\ d.allowance = b.allowance /\ d.last = b.last
        /\ d.owner \in People \cup {b.owner}
    BY <1>0 DEF BridgeState
  <2> HIDE DEF d
  <2> QED
    BY Zenon, <2>1, <2>2, EditKeeps DEF b
<1>2. ASSUME NEW sender \in People, AcceptOwnership(c, sender)
      PROVE  Kept
  <2> DEFINE d == [b EXCEPT !.owner = sender, !.pending = NoAddress]
  <2>1. bridge' = [bridge EXCEPT ![c] = d] /\ messages' = messages /\ paid' = paid
    BY Zenon, <1>2 DEF AcceptOwnership
  <2> HIDE DEF b
  <2>2. /\ d \in BridgeState(Chains, Tokens)
        /\ d.held = b.held /\ d.allowance = b.allowance /\ d.last = b.last
        /\ d.owner \in People \cup {b.owner}
    BY Zenon, <1>0 DEF BridgeState
  <2> HIDE DEF d
  <2> QED
    BY Zenon, <2>1, <2>2, EditKeeps DEF b
<1>3. ASSUME NEW sender \in People, NEW other \in Chains, NEW allowed \in BOOLEAN,
             AllowlistDestinationChain(c, sender, other, allowed)
      PROVE  Kept
  <2> DEFINE d == [b EXCEPT !.destinations = Listed(@, other, allowed)]
  <2>1. bridge' = [bridge EXCEPT ![c] = d] /\ messages' = messages /\ paid' = paid
    BY <1>3 DEF AllowlistDestinationChain
  <2> HIDE DEF b
  <2>2. /\ d \in BridgeState(Chains, Tokens)
        /\ d.held = b.held /\ d.allowance = b.allowance /\ d.last = b.last
        /\ d.owner \in People \cup {b.owner}
    BY <1>0 DEF BridgeState, Listed
  <2> HIDE DEF d
  <2> QED
    BY Zenon, <2>1, <2>2, EditKeeps DEF b
<1>4. ASSUME NEW sender \in People, NEW other \in Chains, NEW allowed \in BOOLEAN,
             AllowlistSourceChain(c, sender, other, allowed)
      PROVE  Kept
  <2> DEFINE d == [b EXCEPT !.sources = Listed(@, other, allowed)]
  <2>1. bridge' = [bridge EXCEPT ![c] = d] /\ messages' = messages /\ paid' = paid
    BY <1>4 DEF AllowlistSourceChain
  <2> HIDE DEF b
  <2>2. /\ d \in BridgeState(Chains, Tokens)
        /\ d.held = b.held /\ d.allowance = b.allowance /\ d.last = b.last
        /\ d.owner \in People \cup {b.owner}
    BY <1>0 DEF BridgeState, Listed
  <2> HIDE DEF d
  <2> QED
    BY Zenon, <2>1, <2>2, EditKeeps DEF b
<1>5. ASSUME NEW sender \in People, NEW other \in Chains, NEW allowed \in BOOLEAN,
             AllowlistSender(c, sender, other, allowed)
      PROVE  Kept
  <2> DEFINE d == [b EXCEPT !.senders = Listed(@, other, allowed)]
  <2>1. bridge' = [bridge EXCEPT ![c] = d] /\ messages' = messages /\ paid' = paid
    BY <1>5 DEF AllowlistSender
  <2> HIDE DEF b
  <2>2. /\ d \in BridgeState(Chains, Tokens)
        /\ d.held = b.held /\ d.allowance = b.allowance /\ d.last = b.last
        /\ d.owner \in People \cup {b.owner}
    BY <1>0 DEF BridgeState, Listed
  <2> HIDE DEF d
  <2> QED
    BY Zenon, <2>1, <2>2, EditKeeps DEF b
<1>6. ASSUME NEW sender \in People, NEW app \in Owners, SetAppBridge(c, sender, app)
      PROVE  Kept
  <2> DEFINE d == [b EXCEPT !.app = app]
  <2>1. bridge' = [bridge EXCEPT ![c] = d] /\ messages' = messages /\ paid' = paid
    BY <1>6 DEF SetAppBridge
  <2> HIDE DEF b
  <2>2. /\ d \in BridgeState(Chains, Tokens)
        /\ d.held = b.held /\ d.allowance = b.allowance /\ d.last = b.last
        /\ d.owner \in People \cup {b.owner}
    BY <1>0 DEF BridgeState
  <2> HIDE DEF d
  <2> QED
    BY Zenon, <2>1, <2>2, EditKeeps DEF b
<1>7. ASSUME NEW sender \in People, Withdraw(c, sender)
      PROVE  Kept
  <2> DEFINE d == [b EXCEPT !.eth = 0]
  <2>1. bridge' = [bridge EXCEPT ![c] = d] /\ messages' = messages /\ paid' = paid
    BY <1>7 DEF Withdraw
  <2> HIDE DEF b
  <2>2. /\ d \in BridgeState(Chains, Tokens)
        /\ d.held = b.held /\ d.allowance = b.allowance /\ d.last = b.last
        /\ d.owner \in People \cup {b.owner}
    BY <1>0 DEF BridgeState
  <2> HIDE DEF d
  <2> QED
    BY Zenon, <2>1, <2>2, EditKeeps DEF b
<1>8. ASSUME Receive(c)
      PROVE  Kept
  <2> DEFINE d == [b EXCEPT !.eth = @ + 1]
  <2>1. bridge' = [bridge EXCEPT ![c] = d] /\ messages' = messages /\ paid' = paid
    BY <1>8 DEF Receive
  <2> HIDE DEF b
  <2>2. /\ d \in BridgeState(Chains, Tokens)
        /\ d.held = b.held /\ d.allowance = b.allowance /\ d.last = b.last
        /\ d.owner \in People \cup {b.owner}
    BY <1>0 DEF BridgeState
  <2> HIDE DEF d
  <2> QED
    BY Zenon, <2>1, <2>2, EditKeeps DEF b
<1> HIDE DEF Kept
<1>9. ASSUME NEW sender \in People, Administer(c, sender)
      PROVE  Kept
  <2>1. CASE \E to \in Nominees : TransferOwnership(c, sender, to)
    BY ZenonT(60), <1>1, <2>1
  <2>2. CASE AcceptOwnership(c, sender)
    BY ZenonT(60), <1>2, <2>2
  <2>3. ASSUME NEW other \in Chains \ {c}, NEW allowed \in BOOLEAN,
               \/ AllowlistDestinationChain(c, sender, other, allowed)
               \/ AllowlistSourceChain(c, sender, other, allowed)
               \/ AllowlistSender(c, sender, other, allowed)
        PROVE  Kept
    BY ZenonT(60), <1>3, <1>4, <1>5, <2>3
  <2>4. CASE \E app \in Owners : SetAppBridge(c, sender, app)
    BY ZenonT(60), <1>6, <2>4
  <2> QED
    BY ZenonT(60), <1>9, <2>1, <2>2, <2>3, <2>4 DEF Administer
<1>10. Kept
  BY ZenonT(60), <1>7, <1>8, <1>9
<1> QED
  BY ZenonT(60), <1>10 DEF Kept

(***************************************************************************)
(* The two send functions.                                                 *)
(***************************************************************************)
LEMMA SendsKeep ==
  ASSUME BridgeInv, NEW c \in Chains, NEW sender \in People, Send(c, sender)
  PROVE  BridgeInv' /\ bridge'[c].owner = bridge[c].owner
<1> DEFINE b == bridge[c]
<1>0. /\ b \in BridgeState(Chains, Tokens) /\ paid \in [Tokens -> Nat]
      /\ \A t \in Tokens : b.allowance[t] = 0
      /\ Link \in Tokens /\ MessageAmounts \subseteq Nat /\ RouterFees \subseteq Nat
  BY BridgeAssumption DEF BridgeInv, BridgesTyped, ApprovalsSpent
<1>1. PICK other \in Chains, t \in Tokens, amount \in Nat, cost \in Nat :
        \E to \in Receivers \cup {other} :
          \/ SendMessagePayLINK(c, sender, other, to, t, amount, cost)
          \/ SendMessagePayNative(c, sender, other, to, t, amount, cost)
  BY <1>0, Zenon DEF Send
<1>2. PICK to \in Receivers \cup Chains :
        \/ SendMessagePayLINK(c, sender, other, to, t, amount, cost)
        \/ SendMessagePayNative(c, sender, other, to, t, amount, cost)
  BY <1>1
<1>3. CASE SendMessagePayLINK(c, sender, other, to, t, amount, cost)
  <2> DEFINE d == PaidLINK(b, Link, t, amount, cost)
             m == Message(c, other, to, t, amount, cost)
  <2>1. MayPayLINK(b, Link, t, amount, cost) /\ bridge' = [bridge EXCEPT ![c] = d]
    BY <1>3 DEF SendMessagePayLINK, MayPull, Pulled,
                Approve, Allowed, Drawn, MayPayLINK, PaidLINK
  <2>2. /\ Len(messages) < MaxMessages /\ messages' = Append(messages, m)
        /\ paid' = [paid EXCEPT ![Link] = @ + cost]
    BY ZenonT(60), <1>3 DEF SendMessagePayLINK, MaySend
  <2> HIDE DEF b
  <2>3. /\ d \in BridgeState(Chains, Tokens) /\ d.last = b.last /\ d.owner = b.owner
        /\ t = Link => cost = 0
        /\ \A x \in Tokens : d.allowance[x] = IF x \in {Link, t} THEN 0 ELSE b.allowance[x]
        /\ \A x \in Tokens : d.held[x] = b.held[x] - (IF x = Link THEN cost ELSE 0)
                                                  - (IF x = t THEN amount ELSE 0)
    BY <1>0, <2>1, SentPayLINK
  <2>4. /\ m \in MessageState /\ m.state = "sent" /\ m.linkFee = cost
        /\ m.token = t /\ m.amount = amount
    BY DEF MessageState, Message
  <2>5. /\ paid' \in [Tokens -> Nat]
        /\ \A x \in Tokens : paid'[x] = paid[x] + (IF x = Link THEN cost ELSE 0)
    BY <1>0, <2>2
  <2> HIDE DEF d, m
  <2>6. \A x \in Tokens : d.allowance[x] = 0
    BY <1>0, <2>3
  <2>7. \A x \in Tokens : d.held[x] = bridge[c].held[x] - (IF x = Link THEN m.linkFee ELSE 0)
                                                  - (IF x = m.token THEN m.amount ELSE 0)
    BY <2>3, <2>4 DEF b
  <2>8. \A x \in Tokens : paid'[x] = paid[x] + (IF x = Link THEN m.linkFee ELSE 0)
    BY <2>4, <2>5
  <2>9. m.token = Link => m.linkFee = 0
    BY Zenon, <2>3, <2>4
  <2>10. /\ d \in BridgeState(Chains, Tokens) /\ d.last = bridge[c].last /\ d.owner = bridge[c].owner
         /\ paid' \in [Tokens -> Nat] /\ bridge' = [bridge EXCEPT ![c] = d]
         /\ m \in MessageState /\ m.state = "sent"
         /\ Len(messages) < MaxMessages /\ messages' = Append(messages, m)
    BY SMTT(30), <2>1, <2>2, <2>3, <2>4, <2>5 DEF b
  <2>11. BridgeInv'
    BY Zenon, <2>6, <2>7, <2>8, <2>9, <2>10, SendKeeps
  <2>12. bridge'[c] = d
    BY <2>10 DEF BridgeInv, BridgesTyped
  <2> QED
    BY ZenonT(120), <2>10, <2>11, <2>12
<1>4. CASE SendMessagePayNative(c, sender, other, to, t, amount, cost)
  <2> DEFINE d == PaidNative(b, t, amount, cost)
             m == Message(c, other, to, t, amount, 0)
  <2>1. /\ cost <= b.eth /\ amount <= Allowed(b, t, amount).held[t]
        /\ bridge' = [bridge EXCEPT ![c] = d]
    BY <1>4 DEF SendMessagePayNative, MayPull, Pulled,
                Approve, Allowed, Drawn, PaidNative
  <2>2. /\ Len(messages) < MaxMessages /\ messages' = Append(messages, m)
        /\ paid' = paid
    BY <1>4 DEF SendMessagePayNative, MaySend
  <2>0. amount <= b.held[t]
    <3> DEFINE a == Allowed(b, t, amount)
    <3> HIDE DEF b
    <3>1. a.held = b.held
      BY SMTT(120), <1>0, ApprovalHolds
    <3> QED
      BY <2>1, <3>1
  <2>3. /\ d \in BridgeState(Chains, Tokens) /\ d.last = b.last /\ d.owner = b.owner
        /\ \A x \in Tokens : d.allowance[x] = IF x = t THEN 0 ELSE b.allowance[x]
        /\ \A x \in Tokens : d.held[x] = b.held[x] - (IF x = t THEN amount ELSE 0)
    BY <1>0, <2>0, <2>1, SentPayNative
  <2>4. /\ m \in MessageState /\ m.state = "sent" /\ m.linkFee = 0
        /\ m.token = t /\ m.amount = amount
    BY DEF MessageState, Message
  <2>5. \A x \in Tokens : paid[x] \in Nat /\ b.held[x] \in Nat
    BY <1>0 DEF BridgeState
  <2> HIDE DEF d, m
  <2>6. \A x \in Tokens : d.allowance[x] = 0
    BY <1>0, <2>3
  <2>7. \A x \in Tokens : d.held[x] = bridge[c].held[x] - (IF x = Link THEN m.linkFee ELSE 0)
                                                  - (IF x = m.token THEN m.amount ELSE 0)
    BY <2>3, <2>4, <2>5
  <2>8. /\ \A x \in Tokens : paid'[x] = paid[x] + (IF x = Link THEN m.linkFee ELSE 0)
        /\ paid' \in [Tokens -> Nat]
    BY SMTT(120), <1>0, <2>2, <2>4, <2>5
  <2>9. /\ d \in BridgeState(Chains, Tokens) /\ d.last = bridge[c].last
        /\ d.owner = bridge[c].owner /\ bridge' = [bridge EXCEPT ![c] = d]
        /\ m \in MessageState /\ m.state = "sent" /\ (m.token = Link => m.linkFee = 0)
        /\ Len(messages) < MaxMessages /\ messages' = Append(messages, m)
    BY SMTT(30), <2>1, <2>2, <2>3, <2>4
  <2> HIDE DEF b
  <2>10. BridgeInv'
    BY Zenon, <2>6, <2>7, <2>8, <2>9, SendKeeps
  <2>11. bridge'[c] = d
    BY <2>9 DEF BridgeInv, BridgesTyped
  <2> QED
    BY <2>9, <2>10, <2>11
<1> QED
  BY <1>2, <1>3, <1>4

(***************************************************************************)
(* The executions of a message: by a bridge, for an account, or failed.    *)
(***************************************************************************)
LEMMA ExecutesKeep ==
  ASSUME BridgeInv, Execute
  PROVE  BridgeInv'
<1>0. /\ bridge \in [Chains -> BridgeState(Chains, Tokens)] /\ paid \in [Tokens -> Nat]
      /\ messages \in Seq(MessageState)
  BY DEF BridgeInv, BridgesTyped
<1>1. PICK i \in 1..Len(messages) :
        CcipReceive(i) \/ ExecuteForAccount(i) \/ ExecutionFails(i)
  BY DEF Execute
<1> DEFINE m == messages[i]
<1>2. /\ m \in MessageState /\ m.to \in Chains /\ m.token \in Tokens /\ m.amount \in Nat
  <2>1. m \in MessageState
    BY <1>0
  <2> QED
    BY <2>1 DEF MessageState
<1>3. CASE CcipReceive(i)
  <2> DEFINE c == m.to
             b == bridge[c]
             d == [b EXCEPT !.held[m.token] = @ + m.amount, !.last = i]
  <2>1. /\ m.state # "executed" /\ m.receiver = c
        /\ bridge' = [bridge EXCEPT ![c] = d]
        /\ messages' = [messages EXCEPT ![i].state = "executed"] /\ paid' = paid
    BY Zenon, <1>3 DEF CcipReceive
  <2>2. b \in BridgeState(Chains, Tokens) /\ c \in Chains /\ i \in Nat
    BY <1>0, <1>2
  <2> DEFINE h == [b.held EXCEPT ![m.token] = @ + m.amount]
  <2> HIDE DEF m, b
  <2>5. /\ b.held \in [Tokens -> Nat] /\ h \in [Tokens -> Nat]
        /\ \A t \in Tokens : h[t] = b.held[t] + (IF t = m.token THEN m.amount ELSE 0)
    <3>1. b.held \in [Tokens -> Nat]
      BY <2>2 DEF BridgeState
    <3> QED
      BY <1>2, <3>1
  <2>6. d = [b EXCEPT !.held = h, !.last = i]
    BY <2>2 DEF BridgeState
  <2> HIDE DEF h
  <2>7. /\ d \in BridgeState(Chains, Tokens) /\ d.allowance = b.allowance /\ d.last = i
        /\ d.held = h
    BY Zenon, <2>2, <2>5, <2>6 DEF BridgeState
  <2> HIDE DEF d
  <2>3. /\ d \in BridgeState(Chains, Tokens) /\ d.allowance = b.allowance /\ d.last = i
        /\ \A t \in Tokens : d.held[t] = b.held[t] + (IF t = m.token THEN m.amount ELSE 0)
        /\ \A t \in Tokens : b.held[t] \in Nat
    BY <2>5, <2>7
  <2> HIDE DEF d
  <2>4. \A t \in Tokens : (d.held[t] - b.held[t]) + (paid'[t] - paid[t])
                           = IF t = m.token THEN m.amount ELSE 0
    BY SMTT(30), <1>0, <1>2, <2>1, <2>3
  <2>8. /\ messages[i].state # "executed" /\ messages[i].receiver = c
        /\ d.allowance = bridge[c].allowance
        /\ paid' \in [Tokens -> Nat]
        /\ \A t \in Tokens : (d.held[t] - bridge[c].held[t]) + (paid'[t] - paid[t])
             = IF "executed" = "executed" /\ t = messages[i].token THEN messages[i].amount ELSE 0
    BY <1>0, <2>1, <2>3, <2>4 DEF m, b
  <2>9. /\ bridge' = [bridge EXCEPT ![c] = d] /\ c \in Chains
        /\ d \in BridgeState(Chains, Tokens) /\ d.last = i
        /\ messages' = [messages EXCEPT ![i].state = "executed"]
    BY <2>1, <2>2, <2>3
  <2> HIDE DEF c
  <2> QED
    BY Zenon, <2>8, <2>9, ExecutionKeeps
<1>4. CASE ExecuteForAccount(i)
  <2> DEFINE c == m.to
             d == bridge[c]
  <2>1. /\ m.state # "executed"
        /\ messages' = [messages EXCEPT ![i].state = "executed"]
        /\ bridge' = bridge /\ paid' = [paid EXCEPT ![m.token] = @ + m.amount]
    BY <1>4 DEF ExecuteForAccount
  <2>2. c \in Chains /\ d \in BridgeState(Chains, Tokens) /\ bridge' = [bridge EXCEPT ![c] = d]
    BY <1>0, <1>2, <2>1
  <2> HIDE DEF m
  <2>3. /\ paid' \in [Tokens -> Nat]
        /\ \A t \in Tokens : paid'[t] = paid[t] + (IF t = m.token THEN m.amount ELSE 0)
    BY <1>0, <1>2, <2>1
  <2>4. \A t \in Tokens : d.held[t] \in Nat
    BY <2>2 DEF BridgeState
  <2>6. \A t \in Tokens : paid[t] \in Nat
    BY <1>0
  <2>7. d.allowance = bridge[c].allowance /\ d.last = bridge[c].last
    OBVIOUS
  <2>8. \A t \in Tokens : d.held[t] = bridge[c].held[t]
    OBVIOUS
  <2> HIDE DEF d, c
  <2>5. \A t \in Tokens : (d.held[t] - bridge[c].held[t]) + (paid'[t] - paid[t])
                           = IF t = m.token THEN m.amount ELSE 0
    BY SMTT(30), <1>2, <2>3, <2>4, <2>6, <2>8
  <2>9. /\ messages[i].state # "executed" /\ messages' = [messages EXCEPT ![i].state = "executed"]
        /\ paid' \in [Tokens -> Nat]
        /\ \A t \in Tokens : (d.held[t] - bridge[c].held[t]) + (paid'[t] - paid[t])
             = IF "executed" = "executed" /\ t = messages[i].token THEN messages[i].amount ELSE 0
    BY <2>1, <2>3, <2>5 DEF m
  <2> QED
    BY Zenon, <2>2, <2>7, <2>9, ExecutionKeeps
<1>5. CASE ExecutionFails(i)
  <2> DEFINE c == m.to
             d == bridge[c]
  <2>1. /\ m.state = "sent" /\ messages' = [messages EXCEPT ![i].state = "failed"]
        /\ bridge' = bridge /\ paid' = paid
    BY <1>5 DEF ExecutionFails
  <2>2. c \in Chains /\ d \in BridgeState(Chains, Tokens) /\ bridge' = [bridge EXCEPT ![c] = d]
    BY <1>0, <1>2, <2>1
  <2>4. \A t \in Tokens : d.held[t] \in Nat
    BY Zenon, <2>2 DEF BridgeState
  <2>7. d.allowance = bridge[c].allowance /\ d.last = bridge[c].last
    OBVIOUS
  <2>8. \A t \in Tokens : d.held[t] = bridge[c].held[t]
    OBVIOUS
  <2> HIDE DEF d, c
  <2>5. \A t \in Tokens : (d.held[t] - bridge[c].held[t]) + (paid'[t] - paid[t]) = 0
    BY <1>0, <2>1, <2>4, <2>8
  <2>9. /\ messages[i].state # "executed" /\ messages' = [messages EXCEPT ![i].state = "failed"]
        /\ paid' \in [Tokens -> Nat]
        /\ \A t \in Tokens : (d.held[t] - bridge[c].held[t]) + (paid'[t] - paid[t])
             = IF "failed" = "executed" /\ t = messages[i].token THEN messages[i].amount ELSE 0
    BY <1>0, <2>1, <2>5
  <2> QED
    BY Zenon, <2>2, <2>7, <2>9, ExecutionKeeps
<1> QED
  BY <1>1, <1>3, <1>4, <1>5

(***************************************************************************)
(* Every transaction and every execution keeps the invariant.              *)
(***************************************************************************)
LEMMA BridgeKeeps ==
  ASSUME BridgeInv, BridgeNext \/ UNCHANGED bridgeVars
  PROVE  BridgeInv'
<1>1. ASSUME NEW c \in Chains, NEW sender \in People,
             \/ Administer(c, sender)
             \/ Send(c, sender)
             \/ TakeOut(c, sender)
      PROVE  BridgeInv'
  BY <1>1, EditsKeep, SendsKeep, TakeAllKeeps
     DEF TakeOut, WithdrawToken, WithdrawFunds
<1>2. ASSUME NEW c \in Chains, Receive(c)
      PROVE  BridgeInv'
  BY ZenonT(120), <1>2, EditsKeep
<1>3. CASE UNCHANGED bridgeVars
  BY <1>3 DEF bridgeVars, BridgeInv, BridgesTyped, ApprovalsSpent,
              LinkNotSentForLink, TokensConserved,
              LastWasReceived, Held, Carried, UnderWay
<1> QED
  BY ZenonT(60), <1>1, <1>2, <1>3, ExecutesKeep DEF BridgeNext
=============================================================================
