----------------------------- MODULE SampleGame -----------------------------
(***************************************************************************)
(* One SampleGame deployed by an account that is its own warden: the       *)
(* warden, the reporter and the players call it in any order.  A call that *)
(* reverts changes nothing and is no step.                                 *)
(***************************************************************************)
EXTENDS GameStorage

CONSTANTS
  Warden,      \* the constructor's _warden
  Reporter,    \* the constructor's _reporter
  GameId,      \* the constructor's _id
  Rosters,     \* the player arrays start may be called with
  MaxAccepted  \* bound: guesses accepted per account

ASSUME GameAssumption ==
  /\ Warden \in Address
  /\ Reporter \in Address
  /\ GameId \in Nat
  /\ Rosters \subseteq Seq(Address)
  /\ MaxAccepted \in Nat

VARIABLES
  game,     \* the storage of the contract
  guessed   \* history: the number of GuessMade events per account

gameVars == <<game, guessed>>

GameTypeOK ==
  /\ game \in Game
  /\ guessed \in [Address -> 0..MaxAccepted]

GameInit ==
  /\ game = NewGame(Warden, Reporter, GameId)
  /\ guessed = [a \in Address |-> 0]

Start(sender, roster) ==
  /\ MayStart(game, sender)
  /\ game' = Started(game, roster)
  /\ UNCHANGED guessed

GameMakeGuess(sender, guess) ==
  /\ MayGuess(game, sender)
  /\ guessed[sender] < MaxAccepted
  /\ game' = Guessed(game, sender, guess)
  /\ guessed' = [guessed EXCEPT ![sender] = @ + 1]

ForceStop(sender) ==
  /\ MayForceStop(game, sender)
  /\ game' = Ended(game)
  /\ UNCHANGED guessed

GameSetFinalNumber(sender, number) ==
  /\ MayReport(game, sender, number)
  /\ game' = Ended(Reported(game, number))
  /\ UNCHANGED guessed

ChangeReporter(sender, newReporter) ==
  /\ MayChangeReporter(game, sender)
  /\ game' = ReporterChanged(game, newReporter)
  /\ UNCHANGED guessed

GameNext ==
  \E sender \in Address :
    \/ \E roster \in Rosters : Start(sender, roster)
    \/ \E guess \in Number : GameMakeGuess(sender, guess)
    \/ ForceStop(sender)
    \/ \E number \in Number : GameSetFinalNumber(sender, number)
    \/ \E newReporter \in Address : ChangeReporter(sender, newReporter)

GameSpec == GameInit /\ [][GameNext]_gameVars

-----------------------------------------------------------------------------
(***************************************************************************)
(* A game that has players is over exactly when its ranking is published,  *)
(* and the ranking has a place for each of them: getRankings never returns *)
(* an empty or a partial array for a game that was played.                 *)
(***************************************************************************)
RankedWhenOver ==
  game.players # <<>> =>
    IF game.isLive THEN game.rankings = <<>>
                   ELSE Len(game.rankings) = Len(game.players)

(***************************************************************************)
(* The published ranking is the ranking of the guesses and the number that *)
(* are in storage: nothing that _populateRankings read changes afterwards, *)
(* by a late guess, a second report or a second start.                     *)
(***************************************************************************)
RankingCurrent ==
  game.rankings # <<>> =>
    game.rankings = Rank(game.players, game.playerGuess, game.finalNumber)

(***************************************************************************)
(* Whatever the order of starts, guesses, reports and stops: a game is     *)
(* over exactly when it is ranked, and a ranking is never out of date      *)
(* (_populateRankings against every call that follows it).                 *)
(***************************************************************************)
RankingSound == RankedWhenOver /\ RankingCurrent

(***************************************************************************)
(* A game that goes live without a final number stays so for ever: no      *)
(* sequence of calls by anyone ends it, because forceStop requires the     *)
(* number and setFinalNumber refuses a live game.                          *)
(***************************************************************************)
LiveWithoutNumberStaysLive ==
  [][game.isLive /\ game.finalNumber = 0
       => game'.isLive /\ game'.finalNumber = 0]_gameVars

(***************************************************************************)
(* A published ranking is final, and so is the game it belongs to: only    *)
(* the reporter may still be replaced.                                     *)
(***************************************************************************)
PublishedIsFinal ==
  [][game.rankings # <<>>
       => game' = [game EXCEPT !.reporter = game'.reporter]]_gameVars

(***************************************************************************)
(* What the require in makeGuess says when it fails, "Player has already   *)
(* made a guess": no account has a second guess accepted.                  *)
(***************************************************************************)
OneGuessPerPlayer == \A a \in Address : guessed[a] <= 1
=============================================================================
