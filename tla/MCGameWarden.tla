---------------------------- MODULE MCGameWarden ----------------------------
(***************************************************************************)
(* One owner and two players, each of whom may be the reporter of a game,  *)
(* and two games; a game may also be created without players.              *)
(***************************************************************************)
EXTENDS GameWarden

CONSTANTS o, r, p

MCLineups == {<<>>, <<p, r>>}
=============================================================================
