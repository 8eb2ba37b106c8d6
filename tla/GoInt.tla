------------------------------- MODULE GoInt -------------------------------
(* Go's int: signed, of some width, with sums and products that wrap.      *)
EXTENDS Integers

CONSTANT MaxInt \* the largest int; 2^63 - 1 on the gateway's platforms
ASSUME MaxIntAssumption == MaxInt \in Nat

MinInt == -(MaxInt + 1)
Span == 2 * (MaxInt + 1)

Add(a, b) == IF a + b > MaxInt THEN a + b - Span
             ELSE IF a + b < MinInt THEN a + b + Span ELSE a + b
Times(a, b) == ((a * b + MaxInt + 1) % Span) - (MaxInt + 1)
=============================================================================
