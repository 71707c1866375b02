----------------------------- MODULE GameProofs -----------------------------
(***************************************************************************)
(* SampleGame for every set of accounts, every range of numbers and every  *)
(* array of players, and GameWarden for every number of games, accounts,   *)
(* owners, player arrays and amounts: the properties that the runs check   *)
(* on small ones.                                                          *)
(***************************************************************************)
EXTENDS SampleGame, GameWarden, InductionLemmas


(***************************************************************************)
(* maxIndex of _populateRankings is an index of the array.                 *)
(***************************************************************************)
LEMMA MaxIndexInRange ==
  ASSUME NEW n \in Nat \ {0}, NEW d
  PROVE  MaxIndex(d, n) \in 1..n
<1>1. CASE FirstMaxima(d, n) = {}
  BY <1>1 DEF MaxIndex
<1>2. CASE FirstMaxima(d, n) # {}
  <2>1. FirstMaxima(d, n) \subseteq 1..n
    BY DEF FirstMaxima
  <2>2. (CHOOSE j \in FirstMaxima(d, n) : TRUE) \in FirstMaxima(d, n)
    BY <1>2
  <2>3. QED
    BY <1>2, <2>1, <2>2 DEF MaxIndex
<1>3. QED
  BY <1>1, <1>2

(***************************************************************************)
(* _populateRankings stores an array as long as the players' array, all of *)
(* whose entries are players.                                              *)
(***************************************************************************)
THEOREM RankListsPlayers ==
  ASSUME NEW S, NEW players \in Seq(S), NEW playerGuess, NEW number
  PROVE  /\ Rank(players, playerGuess, number) \in Seq(S)
         /\ Len(Rank(players, playerGuess, number)) = Len(players)
         /\ \A i \in 1..Len(players) : \E j \in 1..Len(players) :
              Rank(players, playerGuess, number)[i] = players[j]
<1> DEFINE n     == Len(players)
           left  == Left(Distances(players, playerGuess, number), n)
           pick  == [i \in 1..n |-> MaxIndex(left[i - 1], n)]
           ranks == Rank(players, playerGuess, number)
<1>1. n \in Nat
  OBVIOUS
<1>2. \A i \in 1..n : pick[i] \in 1..n
  <2> TAKE i \in 1..n
  <2>1. n \in Nat \ {0}
    BY <1>1
  <2> HIDE DEF n, left
  <2>2. MaxIndex(left[i - 1], n) \in 1..n
    BY <2>1, MaxIndexInRange
  <2> QED
    BY <2>2
<1>3. ranks = [i \in 1..n |-> players[pick[i]]]
  BY DEF Rank
<1> HIDE DEF pick, ranks
<1>4. \A i \in 1..n : players[pick[i]] \in S
  BY <1>2
<1>5. ranks \in Seq(S) /\ Len(ranks) = n
  BY <1>1, <1>3, <1>4
<1>6. QED
  BY <1>2, <1>3, <1>5 DEF ranks

(***************************************************************************)
(* The ranking that _endGame stores has the type of the storage slot, one  *)
(* place per player.                                                       *)
(***************************************************************************)
LEMMA EndedStorage ==
  ASSUME NEW g \in Game
  PROVE  /\ Ended(g) \in Game
         /\ Len(Ended(g).rankings) = Len(g.players)
<1>1. g.players \in Seq(Address)
  BY DEF Game
<1>2. /\ Rank(g.players, g.playerGuess, g.finalNumber) \in Seq(Address)
      /\ Len(Rank(g.players, g.playerGuess, g.finalNumber)) = Len(g.players)
  BY <1>1, RankListsPlayers
<1>3. QED
  BY Zenon, <1>2 DEF Ended, Game

(***************************************************************************)
(* Every state of every behaviour is well typed: no call stores a value    *)
(* outside its slot's type.                                                *)
(***************************************************************************)
THEOREM GameTypeCorrect == GameSpec => []GameTypeOK
<1>1. GameInit => GameTypeOK
  BY StorageAssumption, GameAssumption DEF GameInit, GameTypeOK, NewGame, Game
<1>2. GameTypeOK /\ [GameNext]_gameVars => GameTypeOK'
  <2> SUFFICES ASSUME GameTypeOK, [GameNext]_gameVars
               PROVE  GameTypeOK'
    OBVIOUS
  <2> USE DEF GameTypeOK
  <2>1. ASSUME NEW sender \in Address, NEW roster \in Rosters,
               Start(sender, roster)
        PROVE  GameTypeOK'
    BY Zenon, <2>1, GameAssumption DEF Start, Started, Game
  <2>2. ASSUME NEW sender \in Address, NEW guess \in Number,
               GameMakeGuess(sender, guess)
        PROVE  GameTypeOK'
    <3>1. Guessed(game, sender, guess) \in Game
      BY Zenon DEF Guessed, Game
    <3>2. guessed' \in [Address -> 0..MaxAccepted]
      BY <2>2, GameAssumption DEF GameMakeGuess
    <3>3. QED
      BY <2>2, <3>1, <3>2 DEF GameMakeGuess
  <2>3. ASSUME NEW sender \in Address, ForceStop(sender)
        PROVE  GameTypeOK'
    BY <2>3, EndedStorage DEF ForceStop
  <2>4. ASSUME NEW sender \in Address, NEW number \in Number,
               GameSetFinalNumber(sender, number)
        PROVE  GameTypeOK'
    <3>1. Reported(game, number) \in Game
      BY Zenon DEF Reported, Game
    <3>2. QED
      BY <2>4, <3>1, EndedStorage DEF GameSetFinalNumber
  <2>5. ASSUME NEW sender \in Address, NEW newReporter \in Address,
               ChangeReporter(sender, newReporter)
        PROVE  GameTypeOK'
    BY Zenon, <2>5 DEF ChangeReporter, ReporterChanged, Game
  <2>6. CASE UNCHANGED gameVars
    BY <2>6 DEF gameVars
  <2>7. QED
    BY <2>1, <2>2, <2>3, <2>4, <2>5, <2>6 DEF GameNext
<1>3. QED
  BY <1>1, <1>2, PTL DEF GameSpec

-----------------------------------------------------------------------------
(***************************************************************************)
(* The inductive invariant.  RankedWhenOver does not say that a game       *)
(* without players has no ranking, which start relies on when it makes     *)
(* such a game live; RankingCurrent is preserved by a guess only because a *)
(* live game has no ranking.                                               *)
(***************************************************************************)
RoundInv ==
  /\ GameTypeOK
  /\ game.players = <<>> => game.rankings = <<>>
  /\ RankedWhenOver
  /\ RankingCurrent

(***************************************************************************)
(* What ending a game does to the parts of storage RoundInv speaks of.     *)
(***************************************************************************)
LEMMA EndedRound ==
  ASSUME NEW g \in Game
  PROVE  /\ ~Ended(g).isLive
         /\ Ended(g).players = g.players
         /\ Ended(g).rankings =
              Rank(Ended(g).players, Ended(g).playerGuess, Ended(g).finalNumber)
         /\ Len(Ended(g).rankings) = Len(Ended(g).players)
         /\ g.players = <<>> => Ended(g).rankings = <<>>
<1>1. /\ ~Ended(g).isLive
      /\ Ended(g).players = g.players
      /\ Ended(g).rankings =
           Rank(Ended(g).players, Ended(g).playerGuess, Ended(g).finalNumber)
  BY DEF Ended, Game
<1>2. Ended(g).rankings \in Seq(Address) /\ Len(Ended(g).rankings) = Len(g.players)
  BY EndedStorage DEF Game
<1>3. QED
  BY <1>1, <1>2

(***************************************************************************)
(* RoundInv holds initially and every call that does not revert keeps it.  *)
(***************************************************************************)
THEOREM RoundInvariant == GameSpec => []RoundInv
<1>1. GameInit => RoundInv
  <2> SUFFICES ASSUME GameInit PROVE RoundInv
    OBVIOUS
  <2>1. GameTypeOK
    BY StorageAssumption, GameAssumption DEF GameInit, GameTypeOK, NewGame, Game
  <2>2. QED
    BY <2>1 DEF GameInit, RoundInv, RankedWhenOver, RankingCurrent, NewGame
<1>2. RoundInv /\ GameTypeOK' /\ [GameNext]_gameVars => RoundInv'
  <2> SUFFICES ASSUME RoundInv, GameTypeOK', [GameNext]_gameVars
               PROVE  RoundInv'
    OBVIOUS
  <2> USE DEF RoundInv, RankedWhenOver, RankingCurrent, GameTypeOK
  <2>1. ASSUME NEW sender \in Address, NEW roster \in Rosters,
               Start(sender, roster)
        PROVE  RoundInv'
    BY <2>1 DEF Start, MayStart, Started, Game
  <2>2. ASSUME NEW sender \in Address, NEW guess \in Number,
               GameMakeGuess(sender, guess)
        PROVE  RoundInv'
    <3>1. game.players # <<>> /\ game.isLive
      BY <2>2 DEF GameMakeGuess, MayGuess, OnlyPlayers, Game
    <3>2. /\ game'.rankings = game.rankings
          /\ game'.players = game.players
          /\ game'.isLive = game.isLive
      BY <2>2 DEF GameMakeGuess, Guessed, Game
    <3>3. QED
      BY <3>1, <3>2
  <2>3. ASSUME NEW sender \in Address, ForceStop(sender)
        PROVE  RoundInv'
    BY <2>3, EndedRound DEF ForceStop
  <2>4. ASSUME NEW sender \in Address, NEW number \in Number,
               GameSetFinalNumber(sender, number)
        PROVE  RoundInv'
    <3>1. Reported(game, number) \in Game
      BY Zenon DEF Reported, Game
    <3>2. QED
      BY <2>4, <3>1, EndedRound DEF GameSetFinalNumber
  <2>5. ASSUME NEW sender \in Address, NEW newReporter \in Address,
               ChangeReporter(sender, newReporter)
        PROVE  RoundInv'
    BY Zenon, <2>5 DEF ChangeReporter, ReporterChanged, Game
  <2>6. CASE UNCHANGED gameVars
    BY <2>6 DEF gameVars
  <2>7. QED
    BY <2>1, <2>2, <2>3, <2>4, <2>5, <2>6 DEF GameNext
<1>3. QED
  BY <1>1, <1>2, GameTypeCorrect, PTL DEF GameSpec

(***************************************************************************)
(* A game that was played is over exactly when its ranking is published,   *)
(* with one place per player.                                              *)
(***************************************************************************)
THEOREM OverIffRanked == GameSpec => []RankedWhenOver
BY RoundInvariant, PTL DEF RoundInv

(***************************************************************************)
(* The published ranking is that of the stored guesses and number.         *)
(***************************************************************************)
THEOREM RankingStaysCurrent == GameSpec => []RankingCurrent
BY RoundInvariant, PTL DEF RoundInv

(***************************************************************************)
(* Both together, as the runs check them: over exactly when ranked, and    *)
(* ranked by what is in storage.                                           *)
(***************************************************************************)
THEOREM RankingIsSound == GameSpec => []RankingSound
BY OverIffRanked, RankingStaysCurrent, PTL DEF RankingSound

(***************************************************************************)
(* A live game without a number stays live: the requires of forceStop and  *)
(* the check of setFinalNumber exclude each other.                         *)
(***************************************************************************)
THEOREM NoWayOut == GameSpec => LiveWithoutNumberStaysLive
<1>1. GameTypeOK /\ [GameNext]_gameVars
        => [game.isLive /\ game.finalNumber = 0
              => game'.isLive /\ game'.finalNumber = 0]_gameVars
  <2> SUFFICES ASSUME GameTypeOK, [GameNext]_gameVars, game.isLive, game.finalNumber = 0
               PROVE  game'.isLive /\ game'.finalNumber = 0
    OBVIOUS
  <2> USE DEF GameTypeOK
  <2>1. ASSUME NEW sender \in Address, NEW roster \in Rosters
        PROVE  ~Start(sender, roster)
    BY DEF Start, MayStart
  <2>2. ASSUME NEW sender \in Address, NEW guess \in Number,
               GameMakeGuess(sender, guess)
        PROVE  game'.isLive /\ game'.finalNumber = 0
    BY <2>2 DEF GameMakeGuess, Guessed, Game
  <2>3. ASSUME NEW sender \in Address
        PROVE  ~ForceStop(sender)
    BY DEF ForceStop, MayForceStop, MayEnd
  <2>4. ASSUME NEW sender \in Address, NEW number \in Number
        PROVE  ~GameSetFinalNumber(sender, number)
    BY DEF GameSetFinalNumber, MayReport
  <2>5. ASSUME NEW sender \in Address, NEW newReporter \in Address,
               ChangeReporter(sender, newReporter)
        PROVE  game'.isLive /\ game'.finalNumber = 0
    BY <2>5 DEF ChangeReporter, ReporterChanged, Game
  <2>6. CASE UNCHANGED gameVars
    BY <2>6 DEF gameVars
  <2>7. QED
    BY <2>1, <2>2, <2>3, <2>4, <2>5, <2>6 DEF GameNext
<1>2. QED
  BY <1>1, GameTypeCorrect, PTL DEF GameSpec, LiveWithoutNumberStaysLive

(***************************************************************************)
(* A published ranking, and all of the game but its reporter, is final.    *)
(***************************************************************************)
THEOREM RankingIsFinal == GameSpec => PublishedIsFinal
<1>1. RoundInv /\ [GameNext]_gameVars
        => [game.rankings # <<>>
              => game' = [game EXCEPT !.reporter = game'.reporter]]_gameVars
  <2> SUFFICES ASSUME RoundInv, [GameNext]_gameVars, game.rankings # <<>>
               PROVE  game' = [game EXCEPT !.reporter = game'.reporter]
    OBVIOUS
  <2>1. game.players # <<>>
    BY DEF RoundInv
  <2>2. ~game.isLive
    BY <2>1 DEF RoundInv, RankedWhenOver
  <2>3. ASSUME NEW sender \in Address, NEW roster \in Rosters
        PROVE  ~Start(sender, roster)
    BY <2>1 DEF Start, MayStart
  <2>4. ASSUME NEW sender \in Address, NEW guess \in Number
        PROVE  ~GameMakeGuess(sender, guess)
    BY <2>2 DEF GameMakeGuess, MayGuess
  <2>5. ASSUME NEW sender \in Address
        PROVE  ~ForceStop(sender)
    BY DEF ForceStop, MayForceStop, MayEnd
  <2>6. ASSUME NEW sender \in Address, NEW number \in Number
        PROVE  ~GameSetFinalNumber(sender, number)
    BY DEF GameSetFinalNumber, MayReport, MayEnd, Reported, RoundInv, GameTypeOK, Game
  <2>7. ASSUME NEW sender \in Address, NEW newReporter \in Address,
               ChangeReporter(sender, newReporter)
        PROVE  game' = [game EXCEPT !.reporter = game'.reporter]
    BY <2>7 DEF ChangeReporter, ReporterChanged, RoundInv, GameTypeOK, Game
  <2>8. CASE UNCHANGED gameVars
    BY <2>8 DEF gameVars, RoundInv, GameTypeOK, Game
  <2>9. QED
    BY <2>3, <2>4, <2>5, <2>6, <2>7, <2>8 DEF GameNext
<1>2. QED
  BY <1>1, RoundInvariant, PTL DEF GameSpec, PublishedIsFinal

-----------------------------------------------------------------------------

(***************************************************************************)
(* The inductive invariant.  The type invariant alone is not inductive:    *)
(* what the payout loop would compute is only irrelevant because           *)
(* GamesNeverEnd keeps payoutPlayers from reaching it.                     *)
(***************************************************************************)
WardenInv == TypeOK /\ GamesNeverEnd

(***************************************************************************)
(* A game the warden has created is in the array, live and unnumbered.     *)
(***************************************************************************)
LEMMA ExistingGame ==
  ASSUME WardenInv, NEW id \in GameIds, Exists(id)
  PROVE  /\ id + 1 \in 1..Len(games)
         /\ GameAt(id) \in Game
         /\ GameAt(id).isLive
         /\ GameAt(id).finalNumber = 0
         /\ GameAt(id).rankings = <<>>
<1>1. id + 1 \in 1..Len(games)
  BY WardenAssumption DEF WardenInv, TypeOK, GameIds, Exists
<1>2. QED
  BY <1>1 DEF WardenInv, TypeOK, GamesNeverEnd, GameAt

(***************************************************************************)
(* killGame, payoutPlayers and setFinalNumber are transactions that revert *)
(* in every state of WardenInv: they only leave a receipt.                 *)
(***************************************************************************)
LEMMA KillReverts ==
  ASSUME WardenInv, NEW sender \in Accounts, NEW id \in GameIds,
         KillGame(sender, id)
  PROVE  /\ UNCHANGED <<games, balancesByGame, ethBalance>>
         /\ receipt' = [fn |-> "killGame", sender |-> sender, id |-> id,
                        ok |-> FALSE]
<1>1. ~(/\ sender \in Owners
        /\ Exists(id)
        /\ MayForceStop(GameAt(id), Self))
  BY ExistingGame DEF MayForceStop, MayEnd
<1>2. QED
  BY Zenon, <1>1 DEF KillGame, SetGame, Receipt

\* payoutPlayers reverts for every game of the warden.
LEMMA PayoutReverts ==
  ASSUME WardenInv, NEW sender \in Accounts, NEW id \in GameIds,
         PayoutPlayers(sender, id)
  PROVE  /\ UNCHANGED <<games, balancesByGame, ethBalance>>
         /\ receipt' = [fn |-> "payoutPlayers", sender |-> sender, id |-> id,
                        ok |-> FALSE]
<1> DEFINE s  == Settle(balancesByGame[id], Len(GameAt(id).rankings))
           ok == /\ sender \in Owners
                 /\ Exists(id)
                 /\ ~GameAt(id).isLive
                 /\ TotalSent(s) <= ethBalance
<1>1. ~ok
  BY ExistingGame
<1>2. QED
  BY Zenon, <1>1 DEF PayoutPlayers, Receipt

\* setFinalNumber reverts for every game of the warden.
LEMMA ReportReverts ==
  ASSUME WardenInv, NEW sender \in Accounts, NEW id \in GameIds,
         NEW number \in Number, SetFinalNumber(sender, id, number)
  PROVE  /\ UNCHANGED <<games, balancesByGame, ethBalance>>
         /\ receipt' = [fn |-> "setFinalNumber", sender |-> sender, id |-> id,
                        ok |-> FALSE]
<1>1. Exists(id)
  BY DEF SetFinalNumber
<1>2. MayReport(GameAt(id), sender, number) = FALSE
  BY <1>1, ExistingGame DEF MayReport
<1>3. QED
  BY Zenon, <1>2 DEF SetFinalNumber, SetGame, Receipt

(***************************************************************************)
(* A new game is well typed, and live without a number once it is started. *)
(***************************************************************************)
LEMMA FreshGame ==
  ASSUME NEW reporter \in Accounts, NEW roster \in Lineups, NEW id \in Nat
  PROVE  LET g == Started(NewGame(Self, reporter, id), roster)
         IN  g \in Game /\ g.isLive /\ g.finalNumber = 0 /\ g.rankings = <<>>
<1> DEFINE g == NewGame(Self, reporter, id)
<1>1. /\ g \in Game
      /\ g.finalNumber = 0
      /\ g.rankings = <<>>
  BY StorageAssumption, WardenAssumption DEF NewGame, Game
<1>2. roster \in Seq(Address)
  BY WardenAssumption
<1> HIDE DEF g
<1>3. /\ Started(g, roster) \in Game
      /\ Started(g, roster).isLive
      /\ Started(g, roster).finalNumber = 0
      /\ Started(g, roster).rankings = <<>>
  BY Zenon, <1>1, <1>2 DEF Started, Game
<1>4. QED
  BY <1>3 DEF g

(***************************************************************************)
(* A transaction that only leaves a receipt keeps WardenInv.               *)
(***************************************************************************)
LEMMA RevertKeepsInvariant ==
  ASSUME WardenInv, NEW sender \in Accounts, NEW id \in GameIds,
         NEW fn \in CallNames,
         UNCHANGED <<games, balancesByGame, ethBalance>>,
         receipt' = [fn |-> fn, sender |-> sender, id |-> id, ok |-> FALSE]
  PROVE  WardenInv'
<1>1. id \in Nat /\ sender \in Address
  BY WardenAssumption DEF GameIds
<1>2. receipt' \in [fn : CallNames, sender : Address, id : Nat, ok : BOOLEAN]
  BY <1>1
<1>3. QED
  BY <1>2 DEF WardenInv, TypeOK, GamesNeverEnd

(***************************************************************************)
(* WardenInv holds initially and every transaction keeps it.               *)
(***************************************************************************)
THEOREM WardenInvariant == Spec => []WardenInv
<1>1. Init => WardenInv
  BY WardenAssumption
  DEF Init, WardenInv, TypeOK, GamesNeverEnd, CallNames, GameIds
<1>2. WardenInv /\ [Next]_vars => WardenInv'
  <2> SUFFICES ASSUME WardenInv, [Next]_vars
               PROVE  WardenInv'
    OBVIOUS
  <2> USE DEF CallNames
  <2>1. ASSUME NEW sender \in Accounts, NEW reporter \in Accounts,
               NEW roster \in Lineups, NEW value \in Values,
               CreateNewSampleGame(sender, reporter, roster, value)
        PROVE  WardenInv'
    <3> DEFINE id == Len(games)
               g  == Started(NewGame(Self, reporter, id), roster)
               ok == sender \in Owners /\ MayStart(NewGame(Self, reporter, id), Self)
    <3>1. id \in Nat /\ id < MaxGames /\ games \in Seq(Game)
      BY <2>1 DEF CreateNewSampleGame, WardenInv, TypeOK
    <3>2. g \in Game /\ g.isLive /\ g.finalNumber = 0 /\ g.rankings = <<>>
      BY <3>1, FreshGame
    <3>3. games' = IF ok THEN Append(games, g) ELSE games
      BY <2>1 DEF CreateNewSampleGame
    <3>4. balancesByGame' \in [GameIds -> Nat] /\ ethBalance' \in Nat
      <4>1. /\ balancesByGame' =
                 IF ok THEN [balancesByGame EXCEPT ![id] = value]
                       ELSE balancesByGame
            /\ ethBalance' = IF ok THEN ethBalance + value ELSE ethBalance
        BY <2>1 DEF CreateNewSampleGame
      <4>2. value \in Nat
        BY WardenAssumption
      <4>3. balancesByGame \in [GameIds -> Nat] /\ ethBalance \in Nat
        BY DEF WardenInv, TypeOK
      <4>4. [balancesByGame EXCEPT ![id] = value] \in [GameIds -> Nat]
        BY Zenon, <4>2, <4>3
      <4> HIDE DEF ok
      <4>5. QED
        BY <4>1, <4>2, <4>3, <4>4
    <3>5. receipt' \in [fn : CallNames, sender : Address, id : Nat, ok : BOOLEAN]
      BY <2>1, <3>1, WardenAssumption DEF CreateNewSampleGame, Receipt
    <3> HIDE DEF g, ok, id
    <3>6. games' \in Seq(Game) /\ Len(games') <= MaxGames
      BY <3>1, <3>2, <3>3, WardenAssumption DEF WardenInv, TypeOK, id
    <3>7. GamesNeverEnd'
      BY <3>1, <3>2, <3>3 DEF WardenInv, GamesNeverEnd
    <3>8. QED
      BY <3>4, <3>5, <3>6, <3>7 DEF WardenInv, TypeOK
  <2>2. ASSUME NEW sender \in Accounts, NEW id \in GameIds, KillGame(sender, id)
        PROVE  WardenInv'
    BY <2>2, KillReverts, RevertKeepsInvariant
  <2>3. ASSUME NEW sender \in Accounts, NEW id \in GameIds,
               PayoutPlayers(sender, id)
        PROVE  WardenInv'
    BY <2>3, PayoutReverts, RevertKeepsInvariant
  <2>4. ASSUME NEW sender \in Accounts, NEW id \in GameIds,
               NEW guess \in Number, MakeGuess(sender, id, guess)
        PROVE  WardenInv'
    <3> DEFINE g  == GameAt(id)
               h  == Guessed(g, sender, guess)
               ok == MayGuess(g, sender)
    <3>1. id + 1 \in 1..Len(games) /\ g \in Game /\ games \in Seq(Game)
      BY <2>4, ExistingGame DEF MakeGuess, WardenInv, TypeOK
    <3>2. h \in Game /\ h.isLive /\ h.finalNumber = 0 /\ h.rankings = <<>>
      <4>1. /\ h \in Game
            /\ h.isLive = g.isLive
            /\ h.finalNumber = g.finalNumber
            /\ h.rankings = g.rankings
        BY Zenon, <3>1, WardenAssumption DEF Guessed, Game
      <4>2. QED
        BY <2>4, <4>1, ExistingGame DEF MakeGuess
    <3>3. games' = IF ok THEN [games EXCEPT ![id + 1] = h] ELSE games
      BY <2>4 DEF MakeGuess, SetGame
    <3>4. receipt' \in [fn : CallNames, sender : Address, id : Nat, ok : BOOLEAN]
      BY <2>4, WardenAssumption DEF MakeGuess, MayGuess, Receipt, GameIds
    <3>5. UNCHANGED <<balancesByGame, ethBalance>>
      BY <2>4 DEF MakeGuess
    <3> HIDE DEF g, h, ok
    <3>6. games' \in Seq(Game) /\ Len(games') = Len(games)
      BY <3>1, <3>2, <3>3
    <3>7. GamesNeverEnd'
      BY <3>1, <3>2, <3>3, <3>6 DEF WardenInv, GamesNeverEnd
    <3>8. QED
      BY <3>4, <3>5, <3>6, <3>7 DEF WardenInv, TypeOK
  <2>5. ASSUME NEW sender \in Accounts, NEW id \in GameIds,
               NEW number \in Number, SetFinalNumber(sender, id, number)
        PROVE  WardenInv'
    BY <2>5, ReportReverts, RevertKeepsInvariant
  <2>6. CASE UNCHANGED vars
    BY <2>6 DEF vars, WardenInv, TypeOK, GamesNeverEnd
  <2>7. QED
    BY <2>1, <2>2, <2>3, <2>4, <2>5, <2>6 DEF Next
<1>3. QED
  BY <1>1, <1>2, PTL DEF Spec

(***************************************************************************)
(* Storage and receipts are well typed whatever is sent to the warden.     *)
(***************************************************************************)
THEOREM TypeCorrect == Spec => []TypeOK
BY WardenInvariant, PTL DEF WardenInv

(***************************************************************************)
(* Every game the warden ever creates is live, without number and ranking, *)
(* for ever: no sequence of transactions by owners, reporters and players  *)
(* ends one.                                                               *)
(***************************************************************************)
THEOREM WardenGamesNeverEnd == Spec => []GamesNeverEnd
BY WardenInvariant, PTL DEF WardenInv

(***************************************************************************)
(* killGame, payoutPlayers and setFinalNumber never succeed.               *)
(***************************************************************************)
THEOREM NothingSettles == Spec => []SettlementReverts
<1>1. Init => SettlementReverts
  BY DEF Init, SettlementReverts
<1>2. WardenInv /\ SettlementReverts /\ [Next]_vars => SettlementReverts'
  <2> SUFFICES ASSUME WardenInv, SettlementReverts, [Next]_vars
               PROVE  SettlementReverts'
    OBVIOUS
  <2>1. ASSUME NEW sender \in Accounts, NEW reporter \in Accounts,
               NEW roster \in Lineups, NEW value \in Values,
               CreateNewSampleGame(sender, reporter, roster, value)
        PROVE  SettlementReverts'
    BY <2>1 DEF CreateNewSampleGame, Receipt, SettlementReverts
  <2>2. ASSUME NEW sender \in Accounts, NEW id \in GameIds, KillGame(sender, id)
        PROVE  SettlementReverts'
    BY <2>2, KillReverts DEF SettlementReverts
  <2>3. ASSUME NEW sender \in Accounts, NEW id \in GameIds,
               PayoutPlayers(sender, id)
        PROVE  SettlementReverts'
    BY <2>3, PayoutReverts DEF SettlementReverts
  <2>4. ASSUME NEW sender \in Accounts, NEW id \in GameIds,
               NEW guess \in Number, MakeGuess(sender, id, guess)
        PROVE  SettlementReverts'
    BY <2>4 DEF MakeGuess, Receipt, SettlementReverts
  <2>5. ASSUME NEW sender \in Accounts, NEW id \in GameIds,
               NEW number \in Number, SetFinalNumber(sender, id, number)
        PROVE  SettlementReverts'
    BY <2>5, ReportReverts DEF SettlementReverts
  <2>6. CASE UNCHANGED vars
    BY <2>6 DEF vars, SettlementReverts
  <2>7. QED
    BY <2>1, <2>2, <2>3, <2>4, <2>5, <2>6 DEF Next
<1>3. QED
  BY <1>1, <1>2, WardenInvariant, PTL DEF Spec

(***************************************************************************)
(* Both together, as the runs check them: no game ends, and no transaction *)
(* settles one.                                                            *)
(***************************************************************************)
THEOREM GamesNeverSettled == Spec => []NeverSettled
BY WardenGamesNeverEnd, NothingSettles, PTL DEF NeverSettled

(***************************************************************************)
(* No transaction changes the pot booked on an existing game: the creation *)
(* of a game books under the first unused id, and nothing else books.      *)
(***************************************************************************)
THEOREM PotsAreLocked == Spec => PotsLocked
<1>1. WardenInv /\ [Next]_vars
        => [\A id \in GameIds :
              Exists(id) => balancesByGame'[id] = balancesByGame[id]]_vars
  <2> SUFFICES ASSUME WardenInv, [Next]_vars, NEW pot \in GameIds, Exists(pot)
               PROVE  balancesByGame'[pot] = balancesByGame[pot]
    OBVIOUS
  <2>1. ASSUME NEW sender \in Accounts, NEW reporter \in Accounts,
               NEW roster \in Lineups, NEW value \in Values,
               CreateNewSampleGame(sender, reporter, roster, value)
        PROVE  balancesByGame'[pot] = balancesByGame[pot]
    <3>1. \/ balancesByGame' = balancesByGame
          \/ balancesByGame' = [balancesByGame EXCEPT ![Len(games)] = value]
      BY <2>1 DEF CreateNewSampleGame
    <3>2. pot # Len(games)
      BY WardenAssumption DEF Exists, GameIds, WardenInv, TypeOK
    <3>3. QED
      BY <3>1, <3>2 DEF WardenInv, TypeOK
  <2>2. ASSUME NEW sender \in Accounts, NEW id \in GameIds, KillGame(sender, id)
        PROVE  balancesByGame'[pot] = balancesByGame[pot]
    BY <2>2, KillReverts
  <2>3. ASSUME NEW sender \in Accounts, NEW id \in GameIds,
               PayoutPlayers(sender, id)
        PROVE  balancesByGame'[pot] = balancesByGame[pot]
    BY <2>3, PayoutReverts
  <2>4. ASSUME NEW sender \in Accounts, NEW id \in GameIds,
               NEW guess \in Number, MakeGuess(sender, id, guess)
        PROVE  balancesByGame'[pot] = balancesByGame[pot]
    BY <2>4 DEF MakeGuess
  <2>5. ASSUME NEW sender \in Accounts, NEW id \in GameIds,
               NEW number \in Number, SetFinalNumber(sender, id, number)
        PROVE  balancesByGame'[pot] = balancesByGame[pot]
    BY <2>5, ReportReverts
  <2>6. CASE UNCHANGED vars
    BY <2>6 DEF vars
  <2>7. QED
    BY <2>1, <2>2, <2>3, <2>4, <2>5, <2>6 DEF Next
<1>2. QED
  BY <1>1, WardenInvariant, PTL DEF Spec, PotsLocked

(***************************************************************************)
(* What is owed is what is held.  Creating a game replaces the pot of an   *)
(* id by the value sent, and adds that value to the ETH held: the two      *)
(* agree only because no pot was ever booked on an id not yet given out.   *)
(***************************************************************************)
UnusedUnbooked == \A id \in GameIds : id >= Len(games) => balancesByGame[id] = 0

\* The warden holds exactly the sum of the pots of its games (createGame, payoutPlayers).
THEOREM WardenIsSolvent == Spec => []Solvent
<1> DEFINE Inv == UnusedUnbooked /\ Solvent
<1>0. IsFiniteSet(GameIds)
  BY WardenAssumption, FS_Interval DEF GameIds
<1>1. Init => Inv
  <2> SUFFICES ASSUME Init PROVE Inv
    OBVIOUS
  <2>1. \A id \in GameIds : balancesByGame[id] = 0
    BY DEF Init
  <2>2. SumFunctionOnSet(balancesByGame, GameIds) = 0
    BY <1>0, <2>1, SumZero
  <2> QED
    BY <2>1, <2>2 DEF Init, UnusedUnbooked, Solvent
<1>2. WardenInv /\ Inv /\ [Next]_vars => Inv'
  <2> SUFFICES ASSUME WardenInv, Inv, [Next]_vars
               PROVE  Inv'
    OBVIOUS
  <2>1. ASSUME UNCHANGED <<balancesByGame, ethBalance>>, Len(games') = Len(games)
        PROVE  Inv'
    BY <2>1 DEF UnusedUnbooked, Solvent, GameIds
  <2>2. ASSUME NEW sender \in Accounts, NEW reporter \in Accounts,
               NEW roster \in Lineups, NEW value \in Values,
               CreateNewSampleGame(sender, reporter, roster, value)
        PROVE  Inv'
    <3> DEFINE id == Len(games)
               f  == [balancesByGame EXCEPT ![id] = value]
    <3>1. /\ id \in GameIds
          /\ balancesByGame \in [GameIds -> Int]
          /\ balancesByGame[id] = 0
          /\ value \in Nat /\ ethBalance \in Nat
      BY <2>2, WardenAssumption
      DEF CreateNewSampleGame, WardenInv, TypeOK, GameIds, UnusedUnbooked
    <3>2. \/ UNCHANGED <<games, balancesByGame, ethBalance>>
          \/ /\ balancesByGame' = f
             /\ ethBalance' = ethBalance + value
             /\ Len(games') = id + 1
      BY <2>2 DEF CreateNewSampleGame, WardenInv, TypeOK
    <3>3. SumFunctionOnSet(f, GameIds)
            = SumFunctionOnSet(balancesByGame, GameIds) + value - balancesByGame[id]
      <4>1. /\ f \in [GameIds -> Int] /\ f[id] = value
            /\ \A other \in GameIds : other # id => f[other] = balancesByGame[other]
        BY <3>1
      <4> HIDE DEF f, id
      <4> QED
        BY <1>0, <3>1, <4>1, SumChange
    <3>4. CASE /\ balancesByGame' = f
               /\ ethBalance' = ethBalance + value
               /\ Len(games') = id + 1
      <4>1. Solvent'
        BY <3>1, <3>3, <3>4 DEF Solvent, GameIds
      <4>2. UnusedUnbooked'
        BY <3>1, <3>4 DEF UnusedUnbooked, GameIds
      <4> QED
        BY <4>1, <4>2
    <3> QED
      BY <2>1, <3>2, <3>4
  <2>3. ASSUME NEW sender \in Accounts, NEW id \in GameIds, KillGame(sender, id)
        PROVE  Inv'
    BY <2>1, <2>3, KillReverts
  <2>4. ASSUME NEW sender \in Accounts, NEW id \in GameIds,
               PayoutPlayers(sender, id)
        PROVE  Inv'
    BY <2>1, <2>4, PayoutReverts
  <2>5. ASSUME NEW sender \in Accounts, NEW id \in GameIds,
               NEW guess \in Number, MakeGuess(sender, id, guess)
        PROVE  Inv'
    BY <2>1, <2>5 DEF MakeGuess, SetGame, WardenInv, TypeOK
  <2>6. ASSUME NEW sender \in Accounts, NEW id \in GameIds,
               NEW number \in Number, SetFinalNumber(sender, id, number)
        PROVE  Inv'
    BY <2>1, <2>6, ReportReverts
  <2>7. CASE UNCHANGED vars
    BY <2>1, <2>7 DEF vars
  <2> QED
    BY <2>2, <2>3, <2>4, <2>5, <2>6, <2>7 DEF Next
<1> QED
  BY <1>1, <1>2, WardenInvariant, PTL DEF Spec
=============================================================================
