----------------------------- MODULE GameStorage -----------------------------
(***************************************************************************)
(* The contract SampleGame as data: its storage is a record, and each of   *)
(* its functions is a pair of operators.  May...(g, ...) is the condition  *)
(* under which a call on storage g does not revert, from the modifiers,    *)
(* the early reverts and the requires; the other operator is the storage   *)
(* after the call.  SampleGame.tla runs one such contract, GameWarden.tla  *)
(* runs the array of them that the warden deploys.                         *)
(*                                                                         *)
(* The mapping playerGuess is total with default 0, as in the EVM.         *)
(***************************************************************************)
EXTENDS Settlement

CONSTANTS
  Address,  \* accounts and contracts that appear as msg.sender
  Number    \* the uint256 values a guess or a final number may have

ASSUME StorageAssumption == Number \subseteq Nat /\ 0 \in Number

Game ==
  [warden : Address, reporter : Address, id : Nat,
   players : Seq(Address), rankings : Seq(Address),
   playerGuess : [Address -> Number], isLive : BOOLEAN, finalNumber : Number]

(***************************************************************************)
(* The constructor.                                                        *)
(***************************************************************************)
NewGame(warden, reporter, id) ==
  [warden |-> warden, reporter |-> reporter, id |-> id,
   players |-> <<>>, rankings |-> <<>>,
   playerGuess |-> [a \in Address |-> 0], isLive |-> FALSE, finalNumber |-> 0]

OnlyPlayers(g, sender) == \E i \in 1..Len(g.players) : g.players[i] = sender

(***************************************************************************)
(* start: once per game, unless it was started with no players and ended.  *)
(***************************************************************************)
MayStart(g, sender) ==
  /\ sender = g.warden
  /\ ~g.isLive
  /\ g.players = <<>>

Started(g, roster) == [g EXCEPT !.players = roster, !.isLive = TRUE]

(***************************************************************************)
(* makeGuess.  A player may guess while the stored guess is 0.             *)
(***************************************************************************)
\* Fault: guesses are taken after the end.
MayGuessLate(g, sender) == OnlyPlayers(g, sender) /\ g.playerGuess[sender] = 0

MayGuess(g, sender) ==
  /\ OnlyPlayers(g, sender)
  /\ g.isLive
  /\ g.playerGuess[sender] = 0

Guessed(g, sender, guess) == [g EXCEPT !.playerGuess[sender] = guess]

(***************************************************************************)
(* _endGame and the _populateRankings it calls: the requires on the        *)
(* storage g of the caller, and the storage they leave.  (The require      *)
(* !isLive cannot fail: _endGame has just cleared the flag.)               *)
(***************************************************************************)
\* Faults: a game may end without a number; a game may end twice.
MayEndUnnumbered(g) == g.rankings = <<>>

MayEndTwice(g) == g.finalNumber # 0

MayEnd(g) == g.rankings = <<>> /\ g.finalNumber # 0

Ended(g) ==
  [g EXCEPT !.isLive = FALSE,
            !.rankings = Rank(g.players, g.playerGuess, g.finalNumber)]

MayForceStop(g, sender) == sender = g.warden /\ MayEnd(g)

(***************************************************************************)
(* setFinalNumber: stores the number, then ends the game with it.          *)
(***************************************************************************)
Reported(g, number) == [g EXCEPT !.finalNumber = number]

MayReport(g, sender, number) ==
  /\ sender = g.reporter
  /\ ~g.isLive
  /\ MayEnd(Reported(g, number))

MayChangeReporter(g, sender) == sender = g.warden

ReporterChanged(g, newReporter) == [g EXCEPT !.reporter = newReporter]
==============================================================================
