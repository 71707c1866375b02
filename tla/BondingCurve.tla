---------------------------- MODULE BondingCurve ----------------------------
(***************************************************************************)
(* The arithmetic of FightNightToken's bonding curve, in checked uint256   *)
(* arithmetic: MaxUint stands for 2^256 - 1, and an operation whose result *)
(* does not fit reverts the call.  Decimals stands for DECIMALS = 18^10.   *)
(***************************************************************************)
EXTENDS Integers

CONSTANTS
  Decimals,  \* the scale of amounts
  MaxUint    \* the largest unsigned integer

ASSUME CurveAssumption == Decimals \in Nat \ {0} /\ MaxUint \in Nat

\* Fault: the iteration stops after the second step.
SqrtShort(x) ==
  IF x = 0 THEN 0 ELSE (x \div ((x + 1) \div 2) + (x + 1) \div 2) \div 2

(***************************************************************************)
(* _sqrt: Newton's iteration from y = x, as long as it decreases.  The     *)
(* initial z = (x + 1) / 2 of the code is the iterate of y = x.            *)
(***************************************************************************)
Sqrt(x) ==
  LET root[y \in 1..x] ==
        LET z == (x \div y + y) \div 2
        IN  IF z < y THEN root[z] ELSE y
  IN  IF x = 0 THEN 0 ELSE root[x]

(***************************************************************************)
(* newPrice of _calculatePurchase and _calculateSale.                      *)
(***************************************************************************)
NewPrice(total) == ((total * total) \div Decimals) * (total \div Decimals)

(***************************************************************************)
(* _calculatePurchase: the tokens a deposit buys, and the condition that   *)
(* no operation on the way overflows and the last one does not underflow.  *)
(***************************************************************************)
CurveValue(total, ratio) == Sqrt(NewPrice(total)) * ratio

Purchase(supply, reserve, ratio, deposit) ==
  CurveValue(supply + deposit, ratio) - reserve

MayPurchase(supply, reserve, ratio, deposit) ==
  LET total == supply + deposit
  IN  /\ total <= MaxUint
      /\ total * total <= MaxUint
      /\ NewPrice(total) + 1 <= MaxUint
      /\ CurveValue(total, ratio) <= MaxUint
      /\ reserve <= CurveValue(total, ratio)
=============================================================================
