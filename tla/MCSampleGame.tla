---------------------------- MODULE MCSampleGame ----------------------------
(***************************************************************************)
(* A SampleGame with a warden, a reporter and two players.  It may be      *)
(* started with no players, with an array that names one player twice, and *)
(* with the warden as one of the players.                                  *)
(***************************************************************************)
EXTENDS SampleGame

CONSTANTS w, r, p, q

MCRosters == {<<>>, <<p, q>>, <<q, p, q>>, <<w, p>>}
=============================================================================
