----------------------------- MODULE Settlement -----------------------------
(***************************************************************************)
(* How a game is settled, as operators: the ranking of its players, the    *)
(* two loops that SampleGame._populateRankings and                         *)
(* GuessingGame._populateRankings share, and the payout of its pot, the    *)
(* loop of GameWarden.payoutPlayers.  An array is a sequence; Solidity's   *)
(* index k is index k + 1 here.                                            *)
(***************************************************************************)
EXTENDS Naturals, Sequences

(***************************************************************************)
(* How far a guess is from the final number.  A player without a guess is  *)
(* the player whose stored guess is 0, the default of the mapping.         *)
(***************************************************************************)
Distance(guess, number) ==
  IF guess > number THEN guess - number ELSE number - guess

(***************************************************************************)
(* The inner loop: the first of the largest entries of the array d of      *)
(* length n, and the first entry when no entry is positive (maxIndex is    *)
(* only assigned on a strict increase from 0).                             *)
(***************************************************************************)
FirstMaxima(d, n) ==
  {j \in 1..n : /\ d[j] > 0
                /\ \A k \in 1..n : d[k] < d[j] \/ (d[k] = d[j] /\ j <= k)}

\* Fault: the comparison is >=, so that the last of the largest wins.
MaxIndexLast(d, n) ==
  CHOOSE j \in 1..n : \A k \in 1..n : d[k] < d[j] \/ (d[k] = d[j] /\ j >= k)

MaxIndex(d, n) ==
  IF FirstMaxima(d, n) = {} THEN 1 ELSE CHOOSE j \in FirstMaxima(d, n) : TRUE

(***************************************************************************)
(* The outer loop: n rounds, each of which picks MaxIndex and sets the     *)
(* chosen distance to 0.  Left(d, n)[i] is the array after i rounds.       *)
(***************************************************************************)
Left(d, n) ==
  LET after[i \in 0..n] ==
        IF i = 0 THEN d
        ELSE [after[i - 1] EXCEPT ![MaxIndex(after[i - 1], n)] = 0]
  IN  after

Distances(players, playerGuess, number) ==
  [i \in 1..Len(players) |-> Distance(playerGuess[players[i]], number)]

(***************************************************************************)
(* The array _rankings that _populateRankings stores: farthest first.      *)
(***************************************************************************)
Rank(players, playerGuess, number) ==
  LET n    == Len(players)
      left == Left(Distances(players, playerGuess, number), n)
  IN  [i \in 1..n |-> players[MaxIndex(left[i - 1], n)]]
-----------------------------------------------------------------------------
(***************************************************************************)
(* The payout of a game whose ranking has n places.  In round i (from 0)   *)
(* the loop takes pot / 2^i off the game's balance and sends that amount   *)
(* to the account at place i, as long as something is left; else it        *)
(* breaks.  (The second branch of the code repeats the condition of the    *)
(* first and is dead.)                                                     *)
(***************************************************************************)

(***************************************************************************)
(* The loop after some rounds: the game's balance, the amounts sent so far *)
(* to the places 0, 1, ..., and whether it has left by break.              *)
(***************************************************************************)
\* Fault: the first place gets half of the pot instead of all of it.
PayRoundHalf(pot, i, s) ==
  LET pay == pot \div (2^(i + 1))
  IN  [balance |-> s.balance - pay, sent |-> Append(s.sent, pay),
       broken |-> FALSE]

PayRound(pot, i, s) ==
  LET rest == s.balance - pot \div (2^i)
  IN  IF s.broken THEN s
      ELSE IF rest > 0
           THEN [balance |-> rest, sent |-> Append(s.sent, pot \div (2^i)),
                 broken |-> FALSE]
           ELSE [balance |-> rest, sent |-> s.sent, broken |-> TRUE]

Settle(pot, n) ==
  LET after[i \in 0..(n \div 2)] ==
        IF i = 0 THEN [balance |-> pot, sent |-> <<>>, broken |-> FALSE]
        ELSE PayRound(pot, i - 1, after[i - 1])
  IN  after[n \div 2]

TotalSent(s) ==
  LET sum[i \in 0..Len(s.sent)] ==
        IF i = 0 THEN 0 ELSE sum[i - 1] + s.sent[i]
  IN  sum[Len(s.sent)]
=============================================================================
