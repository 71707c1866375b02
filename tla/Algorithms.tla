----------------------------- MODULE Algorithms -----------------------------
(***************************************************************************)
(* The pure algorithms of the contracts on every input within bounds: the  *)
(* ranking loops, the payout loop and the bonding curve.  The initial      *)
(* state picks one of them (focus); its steps move through its inputs.     *)
(***************************************************************************)
EXTENDS Settlement, BondingCurve, FiniteSets

CONSTANTS
  MaxPlayers,  \* bound: players of a ranked game
  MaxNumber,   \* bound: guesses and final number
  MaxPot,      \* bound: the pot of a settled game
  MaxPlaces,   \* bound: the length of its ranking
  MaxSupply,   \* bound: the supply of a token
  MaxDeposit,  \* bound: the deposit
  Ratio        \* the reserve ratio

ASSUME InputAssumption ==
  /\ MaxPlayers \in Nat /\ MaxNumber \in Nat
  /\ MaxPot \in Nat /\ MaxPlaces \in Nat
  /\ MaxSupply \in Nat /\ MaxDeposit \in Nat /\ Ratio \in Nat

VARIABLES
  focus,
  guesses,  \* ranking: the guess of each player, in the order of the array
  final,    \* ranking: the final number
  pot, places,      \* payout: the pot and the length of the ranking
  supply, reserve   \* curve: the supply and the reserve before a purchase

inputs == <<focus, guesses, final, pot, places, supply, reserve>>

FirstInput ==
  /\ focus \in {"ranking", "payout", "curve"}
  /\ guesses = <<>>
  /\ final \in IF focus = "ranking" THEN 1..MaxNumber ELSE {0}
  /\ pot = 0
  /\ places \in IF focus = "payout" THEN 0..MaxPlaces ELSE {0}
  /\ supply = 0 /\ reserve = 10 * Decimals

Join(guess) ==
  Len(guesses) < MaxPlayers /\ guesses' = Append(guesses, guess)

Clear == Len(guesses) = MaxPlayers /\ guesses' = <<>>

NextPot == pot' = (IF pot < MaxPot THEN pot + 1 ELSE 0) /\ UNCHANGED places

NextSupply == supply < MaxSupply /\ supply' = supply + 1 /\ UNCHANGED reserve

NextReserve ==
  /\ supply = MaxSupply
  /\ supply' = 0
  /\ reserve' = IF reserve < 20 * Decimals THEN reserve + 1 ELSE 10 * Decimals

NextInput ==
  /\ \/ /\ focus = "ranking"
        /\ (\E guess \in 0..MaxNumber : Join(guess)) \/ Clear
        /\ UNCHANGED <<pot, places, supply, reserve>>
     \/ /\ focus = "payout"
        /\ NextPot
        /\ UNCHANGED <<guesses, supply, reserve>>
     \/ /\ focus = "curve"
        /\ NextSupply \/ NextReserve
        /\ UNCHANGED <<guesses, pot, places>>
  /\ UNCHANGED <<focus, final>>

EveryInput == FirstInput /\ [][NextInput]_inputs

-----------------------------------------------------------------------------
\* The players are 1, 2, ... in the order of the array.
Players == [i \in 1..Len(guesses) |-> i]
Off(i) == Distance(guesses[i], final)

(***************************************************************************)
(* The place of a player that is off by more than 0: after all that are    *)
(* farther off, and after the equally far ones earlier in the array.       *)
(***************************************************************************)
Place(i) ==
  1 + Cardinality({k \in DOMAIN guesses :
                     Off(k) > Off(i) \/ (Off(k) = Off(i) /\ k < i)})

(***************************************************************************)
(* The in-place selection of _populateRankings sorts: it is the stable     *)
(* order by decreasing distance of the players that are off, and all the   *)
(* places after them go to the first player of the array.  So the players  *)
(* missing from a published ranking are exactly those after the first      *)
(* whose guess is the final number.                                        *)
(***************************************************************************)
RankIsReference ==
  focus = "ranking" =>
    LET rankings == Rank(Players, guesses, final)
    IN  /\ \A place \in DOMAIN guesses :
             rankings[place] =
               IF \E i \in DOMAIN guesses : Off(i) > 0 /\ Place(i) = place
               THEN CHOOSE i \in DOMAIN guesses : Off(i) > 0 /\ Place(i) = place
               ELSE 1
        /\ DOMAIN guesses \ {rankings[place] : place \in DOMAIN guesses}
             = {i \in DOMAIN guesses : i > 1 /\ Off(i) = 0}

(***************************************************************************)
(* payoutPlayers sends nothing, whatever the pot and the ranking: its      *)
(* first round takes the whole pot off the balance and then breaks.  The   *)
(* balance of a game with two players or more is 0 afterwards, so the pot  *)
(* is written off; a smaller game keeps it.                                *)
(***************************************************************************)
NobodyIsPaid ==
  focus = "payout" =>
    LET s == Settle(pot, places)
    IN  /\ TotalSent(s) = 0
        /\ s.balance = IF places >= 2 THEN 0 ELSE pot

(***************************************************************************)
(* The curve is sound in checked integer arithmetic: _sqrt ends in the     *)
(* square root, rounded down, of every price the curve can ask it for, and *)
(* of two deposits that both go through the larger never buys fewer tokens *)
(* (_calculatePurchase; rounding and overflow do not reverse the order).   *)
(***************************************************************************)
CurveSound ==
  focus = "curve" =>
    /\ \A deposit \in 0..MaxDeposit :
         LET x == NewPrice(supply + deposit)
             y == Sqrt(x)
         IN  y * y <= x /\ x < (y + 1) * (y + 1)
    /\ \A d1, d2 \in 1..MaxDeposit :
         (/\ d1 <= d2
          /\ MayPurchase(supply, reserve, Ratio, d1)
          /\ MayPurchase(supply, reserve, Ratio, d2))
         => /\ Purchase(supply, reserve, Ratio, d1) \in 0..MaxUint
            /\ Purchase(supply, reserve, Ratio, d1)
                 <= Purchase(supply, reserve, Ratio, d2)
=============================================================================
