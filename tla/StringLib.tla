----------------------------- MODULE StringLib -----------------------------
(***************************************************************************)
(* The string and number procedures of assignment-io-library (lib.inc; the *)
(* copy assignment-dictionary/lib.asm has the same ones).  Memory is a     *)
(* function from addresses to bytes, a string is what lies between its     *)
(* address and the next zero byte, a register holds a number below         *)
(* RegMod.                                                                 *)
(***************************************************************************)
EXTENDS Integers, Sequences

CONSTANT RegMod     \* 2^64

ASSUME RegAssumption == RegMod \in Nat /\ RegMod % 256 = 0 /\ RegMod > 0

NUL == 0
TAB == 9
LF == 10
SPACE == 32
MINUS == 45
ZERO == 48

\* string_length: the index of the first zero byte.
StringLength(mem, p) ==
  LET next[n \in Nat] == IF mem[p + n] = NUL THEN n ELSE next[n + 1] IN next[0]

StringAt(mem, p) == [k \in 1 .. StringLength(mem, p) |-> mem[p + k - 1]]

\* string_equals: bytes are compared up to and including the terminator.
StringEquals(mem, p, q) ==
  \A k \in 0 .. StringLength(mem, p) : mem[p + k] = mem[q + k]

-----------------------------------------------------------------------------
(* Numbers.                                                                *)

\* Mistake: the loop ends before the digit of a quotient of zero is stored.
PrintUint_NoZero(n) ==
  LET print[k \in 0 .. n] ==
        IF k = 0 THEN <<>> ELSE Append(print[k \div 10], ZERO + (k % 10))
  IN print[n]

\* print_uint: the digits come out of the division last first.
PrintUint(n) ==
  LET print[k \in 0 .. n] ==
        IF k < 10 THEN <<ZERO + k>> ELSE Append(print[k \div 10], ZERO + (k % 10))
  IN print[n]

\* Mistake: the sign is looked at after the number was negated.
PrintInt_SignLost(n) == IF n < RegMod \div 2 THEN PrintUint(n) ELSE PrintUint(RegMod - n)

\* print_int: the upper half of the registers are the negative numbers.
PrintInt(n) ==
  IF n < RegMod \div 2 THEN PrintUint(n) ELSE <<MINUS>> \o PrintUint(RegMod - n)

\* is_digit: the value of a digit, 10 for any other byte.  The subtraction has
\* eight bits and is compared with a sign, which puts the bytes below '0' and
\* those above 127 + '0' to the negative ones.
IsDigit(ch) ==
  LET d == (ch - ZERO) % 256
      signed == IF d < 128 THEN d ELSE d - 256
  IN IF signed < 0 \/ signed > 9 THEN 10 ELSE signed

\* How many digits lie at p.
DigitCount(mem, p) ==
  LET next[n \in Nat] == IF IsDigit(mem[p + n]) = 10 THEN n ELSE next[n + 1] IN next[0]

\* Mistake: the digit that ends the number is counted.
ParseUint_CountsStop(mem, p) ==
  LET len == DigitCount(mem, p)
      value[k \in 0 .. len] ==
        IF k = 0 THEN 0 ELSE (value[k - 1] * 10 + IsDigit(mem[p + k - 1])) % RegMod
  IN [rax |-> value[len], rdx |-> IF len = 0 THEN 0 ELSE len + 1]

\* parse_uint: value and length of the digits at p; no look at the overflow.
ParseUint(mem, p) ==
  LET len == DigitCount(mem, p)
      value[k \in 0 .. len] ==
        IF k = 0 THEN 0 ELSE (value[k - 1] * 10 + IsDigit(mem[p + k - 1])) % RegMod
  IN [rax |-> value[len], rdx |-> len]

\* Mistake: the result of neg is kept in more bits than a register has.
ParseInt_NotReduced(mem, p) ==
  IF mem[p] # MINUS THEN ParseUint(mem, p)
  ELSE LET u == ParseUint(mem, p + 1)
       IN [rax |-> RegMod - u.rax, rdx |-> u.rdx + 1]

\* parse_int: behind a minus the length is one more, digits or not.
ParseInt(mem, p) ==
  IF mem[p] # MINUS THEN ParseUint(mem, p)
  ELSE LET u == ParseUint(mem, p + 1)
       IN [rax |-> (RegMod - u.rax) % RegMod, rdx |-> u.rdx + 1]

-----------------------------------------------------------------------------
(* Copying.                                                                *)

\* Mistake: the terminator is not copied.
StringCopy_NoTerminator(mem, src, dst, size) ==
  LET n == StringLength(mem, src) IN
  IF n > size THEN [mem |-> mem, rax |-> 0]
  ELSE [mem |-> [a \in DOMAIN mem |->
                   IF a \in dst .. dst + n - 1 THEN mem[src + a - dst] ELSE mem[a]],
        rax |-> n]

\* string_copy: all bytes with the terminator, if the length is at most `size`.
StringCopy(mem, src, dst, size) ==
  LET n == StringLength(mem, src) IN
  IF n > size THEN [mem |-> mem, rax |-> 0]
  ELSE [mem |-> [a \in DOMAIN mem |->
                   IF a \in dst .. dst + n THEN mem[src + a - dst] ELSE mem[a]],
        rax |-> n]
=============================================================================
