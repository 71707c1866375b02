----------------------------- MODULE GameWarden -----------------------------
(***************************************************************************)
(* The contract GameWarden together with the SampleGames it deploys, whose *)
(* warden it is.  Every step is one transaction that some account sends to *)
(* the warden or to one of the games; the receipt of the last transaction  *)
(* is kept, since a reverted one leaves no other trace.  start, forceStop  *)
(* and changeReporter of a game are OnlyWarden, so that only the first two *)
(* can be reached, through createNewSampleGame and killGame.               *)
(***************************************************************************)
EXTENDS GameStorage, Functions

CONSTANTS
  Self,      \* the warden contract's address
  Accounts,  \* the accounts that send transactions
  Owners,    \* the array owners, as a set
  Lineups,   \* the player arrays a game may be created with
  Values,    \* the ETH a transaction may carry
  MaxGames   \* bound: number of games created

ASSUME WardenAssumption ==
  /\ Address = Accounts \cup {Self}
  /\ Self \notin Accounts
  /\ Owners \subseteq Accounts
  /\ Lineups \subseteq Seq(Address)
  /\ Values \subseteq Nat
  /\ MaxGames \in Nat

VARIABLES
  games,           \* the array of games; gameId is at index gameId + 1
  balancesByGame,  \* the mapping of the same name, for ids below MaxGames
  ethBalance,      \* the ETH the warden holds
  receipt          \* the last transaction: function, sender, game and status

vars == <<games, balancesByGame, ethBalance, receipt>>

GameIds == 0..(MaxGames - 1)
CallNames == {"none", "createNewSampleGame", "killGame", "payoutPlayers",
              "makeGuess", "setFinalNumber"}

TypeOK ==
  /\ games \in Seq(Game)
  /\ Len(games) <= MaxGames
  /\ balancesByGame \in [GameIds -> Nat]
  /\ ethBalance \in Nat
  /\ receipt \in [fn : CallNames, sender : Address, id : Nat, ok : BOOLEAN]

Init ==
  /\ games = <<>>
  /\ balancesByGame = [id \in GameIds |-> 0]
  /\ ethBalance = 0
  /\ receipt = [fn |-> "none", sender |-> Self, id |-> 0, ok |-> TRUE]

Exists(id) == id < Len(games)
GameAt(id) == games[id + 1]

Receipt(fn, sender, id, ok) ==
  receipt' = [fn |-> fn, sender |-> sender, id |-> id, ok |-> ok]

(***************************************************************************)
(* The call updates one game, or reverts and changes nothing.              *)
(***************************************************************************)
SetGame(id, ok, g) ==
  games' = IF ok THEN [games EXCEPT ![id + 1] = g] ELSE games

-----------------------------------------------------------------------------

\* Fault: the pot is booked on the game before the new one.
CreateBookedOnPrevious(sender, reporter, roster, value) ==
  LET id == Len(games)
      ok == sender \in Owners
  IN  /\ id < MaxGames
      /\ games' = IF ok THEN Append(games, Started(NewGame(Self, reporter, id),
                                                   roster))
                        ELSE games
      /\ balancesByGame' =
           IF ok THEN [balancesByGame EXCEPT ![id - 1] = value]
                 ELSE balancesByGame
      /\ ethBalance' = IF ok THEN ethBalance + value ELSE ethBalance
      /\ Receipt("createNewSampleGame", sender, id, ok)

CreateNewSampleGame(sender, reporter, roster, value) ==
  LET id == Len(games)
      g  == NewGame(Self, reporter, id)
      ok == sender \in Owners /\ MayStart(g, Self)
  IN  /\ id < MaxGames
      /\ games' = IF ok THEN Append(games, Started(g, roster)) ELSE games
      /\ balancesByGame' =
           IF ok THEN [balancesByGame EXCEPT ![id] = value] ELSE balancesByGame
      /\ ethBalance' = IF ok THEN ethBalance + value ELSE ethBalance
      /\ Receipt("createNewSampleGame", sender, id, ok)

KillGame(sender, id) ==
  LET ok == /\ sender \in Owners
            /\ Exists(id)
            /\ MayForceStop(GameAt(id), Self)
  IN  /\ SetGame(id, ok, Ended(GameAt(id)))
      /\ UNCHANGED <<balancesByGame, ethBalance>>
      /\ Receipt("killGame", sender, id, ok)

\* Fault: a running game may be paid out.
PayoutRunning(sender, id) ==
  /\ UNCHANGED <<games, balancesByGame, ethBalance>>
  /\ Receipt("payoutPlayers", sender, id, sender \in Owners /\ Exists(id))

PayoutPlayers(sender, id) ==
  LET s  == Settle(balancesByGame[id], Len(GameAt(id).rankings))
      ok == /\ sender \in Owners
            /\ Exists(id)
            /\ ~GameAt(id).isLive
            /\ TotalSent(s) <= ethBalance
  IN  /\ balancesByGame' =
           IF ok THEN [balancesByGame EXCEPT ![id] = s.balance]
                 ELSE balancesByGame
      /\ ethBalance' = IF ok THEN ethBalance - TotalSent(s) ELSE ethBalance
      /\ UNCHANGED games
      /\ Receipt("payoutPlayers", sender, id, ok)

MakeGuess(sender, id, guess) ==
  LET ok == MayGuess(GameAt(id), sender)
  IN  /\ Exists(id)
      /\ SetGame(id, ok, Guessed(GameAt(id), sender, guess))
      /\ UNCHANGED <<balancesByGame, ethBalance>>
      /\ Receipt("makeGuess", sender, id, ok)

SetFinalNumber(sender, id, number) ==
  LET ok == MayReport(GameAt(id), sender, number)
  IN  /\ Exists(id)
      /\ SetGame(id, ok, Ended(Reported(GameAt(id), number)))
      /\ UNCHANGED <<balancesByGame, ethBalance>>
      /\ Receipt("setFinalNumber", sender, id, ok)

Next ==
  \E sender \in Accounts :
    \/ \E reporter \in Accounts, roster \in Lineups, value \in Values :
         CreateNewSampleGame(sender, reporter, roster, value)
    \/ \E id \in GameIds : KillGame(sender, id)
    \/ \E id \in GameIds : PayoutPlayers(sender, id)
    \/ \E id \in GameIds, guess \in Number : MakeGuess(sender, id, guess)
    \/ \E id \in GameIds, number \in Number : SetFinalNumber(sender, id, number)

Spec == Init /\ [][Next]_vars

-----------------------------------------------------------------------------
(***************************************************************************)
(* Every game the warden ever created is still being played: it is live    *)
(* from the transaction that creates it, so that its reporter can never    *)
(* report, and without a reported number killGame cannot stop it.          *)
(***************************************************************************)
GamesNeverEnd ==
  \A i \in 1..Len(games) :
    games[i].isLive /\ games[i].finalNumber = 0 /\ games[i].rankings = <<>>

(***************************************************************************)
(* No transaction that would settle a game goes through: killGame,         *)
(* payoutPlayers and setFinalNumber revert whoever sends them, in every    *)
(* order, also for owners and for the game's own reporter.                 *)
(***************************************************************************)
SettlementReverts ==
  receipt.fn \in {"killGame", "payoutPlayers", "setFinalNumber"} => ~receipt.ok

(***************************************************************************)
(* No game of the warden is ever settled: none ends, and no transaction    *)
(* that would end it or pay it out goes through (createNewSampleGame,      *)
(* killGame, payoutPlayers, setFinalNumber).                               *)
(***************************************************************************)
NeverSettled == GamesNeverEnd /\ SettlementReverts

(***************************************************************************)
(* What the warden owes for its games is what it holds: the ETH that came  *)
(* with createNewSampleGame is booked on one game each, and none leaves.   *)
(***************************************************************************)
Solvent == ethBalance = SumFunctionOnSet(balancesByGame, GameIds)

(***************************************************************************)
(* The pot of a game, once booked, is never changed: neither by a payout   *)
(* nor by the creation of a later game under a reused id.                  *)
(***************************************************************************)
PotsLocked ==
  [][\A id \in GameIds :
       Exists(id) => balancesByGame'[id] = balancesByGame[id]]_vars
=============================================================================
