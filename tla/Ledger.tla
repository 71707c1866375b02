------------------------------- MODULE Ledger -------------------------------
(***************************************************************************)
(* What a synchronised store promises its readers: one chain of blocks,    *)
(* which only ever grows at its end by blocks that passed every check, or  *)
(* is cut back to one of its own prefixes.  How many commits, retries and  *)
(* restarts that takes is nobody's business but the implementation's.      *)
(***************************************************************************)
EXTENDS Naturals, Sequences

VARIABLES ledger,      \* the blocks a reader of the finished store sees
          sound        \* the chains all of whose blocks are valid

vars == <<ledger, sound>>

Init == ledger \in sound

Extend == \E c \in sound : /\ Len(c) > Len(ledger)
                           /\ SubSeq(c, 1, Len(ledger)) = ledger
                           /\ ledger' = c

Unwind == \E n \in 0..Len(ledger) - 1 : ledger' = SubSeq(ledger, 1, n)

Next == (Extend \/ Unwind) /\ UNCHANGED sound

Spec == Init /\ [][Next]_vars
=============================================================================
