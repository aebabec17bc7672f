------------------------------ MODULE SafeMath ------------------------------
(***************************************************************************)
(* The checked arithmetic of safe-math.c.  Numbers are unsigned and at most *)
(* max, SIZE_MAX or UINT64_MAX; an operation that would exceed it ends the  *)
(* program, the others give what the wrapping operation of C gives.         *)
(***************************************************************************)
EXTENDS Integers

Wrapped(n, max) == n % (max + 1)

(* sSizeAdd() and sUint64Add(): the check that precedes a die(), and the    *)
(* value that is returned without one.                                      *)
AddDies(a, b, max) == a > Wrapped(max - b, max)
Add(a, b, max)     == Wrapped(a + b, max)

(* sSizeMul() and sUint64Mul(). *)
MulDies(a, b, max) == b # 0 /\ a > max \div b
Mul(a, b, max)     == Wrapped(a * b, max)

(* sUint64Mul() returns its uint64_t as a size_t. *)
MulAsSize(a, b, max, sizeMax) == Wrapped(Mul(a, b, max), sizeMax)

(* sUint64GetDifference() *)
Difference(a, b) == IF a < b THEN b - a ELSE a - b
=============================================================================
