----------------------------- MODULE WadRayMath -----------------------------
(***************************************************************************)
(* Fixed-point arithmetic of libraries/math: WadRayMath, which works with  *)
(* WAD (1e18) and RAY (1e27) units, and PercentageMath, which works with   *)
(* basis points.  Every operator rounds half up exactly as the assembly    *)
(* does: the divisor's half, itself rounded down, is added before the      *)
(* truncating division.  The units are parameters, so that small instances *)
(* meet the same rounding cases as 27 decimals do.  The assembly reverts   *)
(* on a 256-bit overflow and on a zero divisor; callers of this module     *)
(* pass positive divisors and values far below 2^256.                      *)
(***************************************************************************)
EXTENDS Integers

CONSTANTS WAD,                \* one, as a wad
          RAY,                \* one, as a ray
          PERCENTAGE_FACTOR   \* 100%, in basis points

ASSUME UnitAssumption == /\ WAD \in Nat \ {0}
                         /\ RAY \in Nat \ {0}
                         /\ PERCENTAGE_FACTOR \in Nat \ {0}

WadDiv(a, b) == (a * WAD + (b \div 2)) \div b

RayMul(a, b) == (a * b + (RAY \div 2)) \div RAY

(* Mutants: the division truncates, or rounds up. *)
RayDivDown(a, b) == (a * RAY) \div b

RayDivUp(a, b) == (a * RAY + b - 1) \div b

RayDiv(a, b) == (a * RAY + (b \div 2)) \div b

PercentMul(value, percentage) ==
    (value * percentage + (PERCENTAGE_FACTOR \div 2)) \div PERCENTAGE_FACTOR

PercentDiv(value, percentage) ==
    (value * PERCENTAGE_FACTOR + (percentage \div 2)) \div percentage
=============================================================================
