---------------------------- MODULE SepiaFilter ----------------------------
(***************************************************************************)
(* The two sepia filters of assignment-sepia-filter as pure functions:     *)
(* sepia_one of sepia_filter.c, and sepia_filter_sse.asm, which filters    *)
(* four pixels in three passes over four lanes.                            *)
(*                                                                         *)
(* A pixel is <<b, g, r>>.  Coefficients are in thousandths.  A sum of     *)
(* floats is in ten-thousandths and its error `err` is one of them at most *)
(* (three products below 200 and two sums below 346 lose less than 0.0001  *)
(* in single precision); both filters multiply and add in the same order,  *)
(* so they see the same sum.                                               *)
(***************************************************************************)
EXTENDS Integers, Sequences

One == 10000     \* 1.0

Errors == {-1, 0, 1}

\* float c[3][3]: the coefficients of r, g and b that make r, g and b.
Coefficients == [r |-> <<393, 769, 189>>, g |-> <<349, 686, 168>>, b |-> <<272, 543, 131>>]

\* r * x + g * y + b * z in single precision.
FloatSum(r, g, b, coeff, err) ==
  LET exact == 10 * (r * coeff[1] + g * coeff[2] + b * coeff[3])
  IN IF exact = 0 THEN 0 ELSE exact + err

Sat(x) == IF x < 256 THEN x ELSE 255

\* Mistake: nothing is saturated.
SepiaOne_NotSaturated(pixel, err) ==
  LET channel(coeff) == FloatSum(pixel[3], pixel[2], pixel[1], coeff, err) \div One
  IN <<channel(Coefficients.b), channel(Coefficients.g), channel(Coefficients.r)>>

\* sepia_one: each channel is cut to an integer, then saturated.
SepiaOne(pixel, err) ==
  LET channel(coeff) ==
        Sat(FloatSum(pixel[3], pixel[2], pixel[1], coeff, err) \div One)
  IN <<channel(Coefficients.b), channel(Coefficients.g), channel(Coefficients.r)>>

-----------------------------------------------------------------------------
(* SSE.  A register is a sequence of four lanes.                           *)

\* shufps with the lanes of the mask from the lowest on.
Shufps(x, mask) == [k \in 1 .. 4 |-> x[mask[k] + 1]]

\* movq: two floats from address `at` (a distance in floats), and zeroes.
Movq(a, at) == <<a[at + 1], a[at + 2], 0, 0>>

\* The coefficients c1, c2, c3 as they are before the first pass.
C0 == <<<<272, 349, 393, 272>>, <<543, 686, 769, 543>>, <<131, 168, 189, 131>>>>

\* cvtps2dq: to the nearest integer, ties to even.
Nearest(x) ==
  LET q == x \div One
      over == x % One
  IN IF over < One \div 2 \/ (over = One \div 2 /\ q % 2 = 0) THEN q ELSE q + 1

\* Mistake: pminsd is missing, and pextrb takes the lowest byte.
CalcFourValues_NoMin(r, g, b, at, mask, C, err) ==
  LET x == Shufps(Movq(r, at), mask)
      y == Shufps(Movq(g, at), mask)
      z == Shufps(Movq(b, at), mask)
  IN [k \in 1 .. 4 |->
        Nearest(FloatSum(x[k], y[k], z[k], <<C[1][k], C[2][k], C[3][k]>>, err)) % 256]

\* calc_four_values: four bytes of the result.
CalcFourValues(r, g, b, at, mask, C, err) ==
  LET x == Shufps(Movq(r, at), mask)
      y == Shufps(Movq(g, at), mask)
      z == Shufps(Movq(b, at), mask)
      lane(k) == FloatSum(x[k], y[k], z[k], <<C[1][k], C[2][k], C[3][k]>>, err)
  IN [k \in 1 .. 4 |-> Nearest(IF lane(k) < 255 * One THEN lane(k) ELSE 255 * One)]

\* Mistake: the coefficients are rotated the other way.
NextCoefficients_OtherWay(C) == [k \in 1 .. 3 |-> Shufps(C[k], <<2, 0, 1, 2>>)]

\* next: the coefficients for the four bytes that follow.
NextCoefficients(C) == [k \in 1 .. 3 |-> Shufps(C[k], <<1, 2, 0, 1>>)]

\* sepia_filter_sse: the twelve bytes of four pixels.
SepiaFilterSse(r, g, b, err) ==
  LET C1 == NextCoefficients(C0)
      C2 == NextCoefficients(C1)
  IN CalcFourValues(r, g, b, 0, <<0, 0, 0, 1>>, C0, err)
       \o CalcFourValues(r, g, b, 1, <<0, 0, 1, 1>>, C1, err)
       \o CalcFourValues(r, g, b, 2, <<0, 1, 1, 1>>, C2, err)
=============================================================================
