----------------------------- MODULE IoLibrary -----------------------------
(***************************************************************************)
(* Clients of assignment-io-library as test.py builds them: a program that *)
(* parses a text and prints the number it got, one that prints a number    *)
(* and reads it back, and one that copies a string into a buffer.  The     *)
(* text lies at address TEXT, the buffer behind it, other data behind the  *)
(* buffer.                                                                 *)
(***************************************************************************)
EXTENDS StringLib, FiniteSets

CONSTANTS
  Texts,         \* strings a client may parse or copy
  BufferSizes    \* sizes a client may give its buffer

ASSUME TextsAssumption ==
  /\ Texts \subseteq Seq(1 .. 255)
  /\ BufferSizes \subseteq Nat
  /\ \A s \in Texts, n \in BufferSizes : Len(s) + n + 4 < RegMod   \* addresses

BEHIND == 200    \* every byte of the data behind the buffer

VARIABLES
  pc,
  text,     \* the string at TEXT
  mem,      \* the memory
  size,     \* the size of the buffer
  number,   \* the argument of print_uint or print_int
  signed,   \* whether the client uses the signed procedures
  rax, rdx, \* what the last procedure returned
  stdout

vars == <<pc, text, mem, size, number, signed, rax, rdx, stdout>>

TEXT == 0
BUFFER == Len(text) + 1

\* The text with its terminator, a buffer of n bytes and four more bytes.
Memory(s, n) ==
  [a \in 0 .. Len(s) + n + 4 |->
     IF a < Len(s) THEN s[a + 1]
     ELSE IF a = Len(s) THEN NUL
     ELSE IF a <= Len(s) + n THEN 66   \* test.py: times n db 66
     ELSE BEHIND]

Init ==
  /\ pc = "start"
  /\ text \in Texts
  /\ size \in BufferSizes
  /\ mem = Memory(text, size)
  /\ number = 0
  /\ signed \in BOOLEAN
  /\ rax = 0 /\ rdx = 0
  /\ stdout = <<>>

\* The client calls parse_uint or parse_int.
Parse ==
  LET result == IF signed THEN ParseInt(mem, TEXT) ELSE ParseUint(mem, TEXT) IN
  /\ pc = "start"
  /\ pc' = "parsed"
  /\ rax' = result.rax /\ rdx' = result.rdx
  /\ number' = result.rax
  /\ UNCHANGED <<text, mem, size, signed, stdout>>

\* The client starts from a number, and has no text.
Choose ==
  /\ pc = "start"
  /\ text = <<>>
  /\ pc' = "number"
  /\ number' \in 0 .. RegMod - 1
  /\ UNCHANGED <<text, mem, size, signed, rax, rdx, stdout>>

\* print_uint or print_int of the number.
PrintNumber ==
  /\ pc \in {"parsed", "number"}
  /\ pc' = "printed"
  /\ stdout' = IF signed THEN PrintInt(number) ELSE PrintUint(number)
  /\ UNCHANGED <<text, mem, size, number, signed, rax, rdx>>

\* What was printed is parsed by another program.
ReadBack ==
  LET printed == [a \in 0 .. Len(stdout) |-> IF a = Len(stdout) THEN NUL ELSE stdout[a + 1]]
      result == IF signed THEN ParseInt(printed, 0) ELSE ParseUint(printed, 0)
  IN
  /\ pc = "printed"
  /\ pc' = "read_back"
  /\ rax' = result.rax /\ rdx' = result.rdx
  /\ UNCHANGED <<text, mem, size, number, signed, stdout>>

\* string_copy of the text into the buffer.
Copy ==
  LET result == StringCopy(mem, TEXT, BUFFER, size) IN
  /\ pc = "start"
  /\ pc' = "copied"
  /\ mem' = result.mem
  /\ rax' = result.rax
  /\ UNCHANGED <<text, size, number, signed, rdx, stdout>>

Next == Parse \/ Choose \/ PrintNumber \/ ReadBack \/ Copy

Spec == Init /\ [][Next]_vars

-----------------------------------------------------------------------------
TypeOK ==
  /\ pc \in {"start", "parsed", "number", "printed", "read_back", "copied"}
  /\ DOMAIN mem = 0 .. Len(text) + size + 4
  /\ \A a \in DOMAIN mem : mem[a] \in 0 .. 255
  /\ number \in 0 .. RegMod - 1
  /\ rax \in 0 .. RegMod - 1 /\ rdx \in Nat
  /\ stdout \in Seq({MINUS} \union (ZERO .. ZERO + 9))

Digits == ZERO .. ZERO + 9

\* test.py: re.findall('^\d+', s): the longest prefix of digits.
Prefix(s) ==
  LET lengths == {n \in 0 .. Len(s) : \A k \in 1 .. n : s[k] \in Digits}
      longest == CHOOSE n \in lengths : \A m \in lengths : m <= n
  IN SubSeq(s, 1, longest)

\* The number a string of digits stands for.
Value(s) ==
  LET power[k \in 0 .. Len(s)] == IF k = 0 THEN 1 ELSE 10 * power[k - 1]
      sum[k \in 0 .. Len(s)] ==
        IF k = 0 THEN 0 ELSE sum[k - 1] + (s[k] - ZERO) * power[Len(s) - k]
  IN sum[Len(s)]

Minus(s) == s # <<>> /\ s[1] = MINUS

\* test.py, starts_uint and starts_int: whatever follows the number, its value
\* and its length, sign included, are those of the longest prefix that is one;
\* values that do not fit the register are reduced.  A minus without digits is
\* left out: lib.inc:230 promises length zero for it, the code returns one.
ParsesPrefix ==
  pc = "parsed" =>
    IF signed /\ Minus(text)
    THEN LET digits == Prefix(Tail(text)) IN
         digits # <<>> => /\ rdx = Len(digits) + 1
                          /\ (rax + Value(digits)) % RegMod = 0
    ELSE /\ rdx = Len(Prefix(text))
         /\ rax = Value(Prefix(text)) % RegMod

\* Reading back what was printed gives the number that was printed, and uses
\* all of the text: for the least negative number and the largest one, too.
RoundTrip == pc = "read_back" => rax = number /\ rdx = Len(stdout)

\* There is one way to write a number: no leading zeroes, no "-0".
Canonical ==
  pc = "printed" =>
    LET digits == IF Minus(stdout) THEN Tail(stdout) ELSE stdout
    IN /\ digits # <<>> /\ \A k \in DOMAIN digits : digits[k] \in Digits
       /\ digits[1] = ZERO => stdout = <<ZERO>>
       /\ Value(digits) = IF Minus(stdout) THEN RegMod - number ELSE number

\* A text that fits the buffer with its terminator is copied whole, a longer
\* one leaves the memory as it was, and nothing behind the buffer is written.  A
\* text exactly as long as the buffer is left out: lib.inc:244 promises zero for
\* it, the code copies it and writes the terminator behind the buffer.
CopiesWhole ==
  (pc = "copied" /\ Len(text) # size) =>
    /\ IF Len(text) < size
       THEN rax = Len(text) /\ StringEquals(mem, TEXT, BUFFER)
       ELSE rax = 0 /\ mem = Memory(text, size)
    /\ \A a \in BUFFER + size .. Len(text) + size + 4 : mem[a] = BEHIND
=============================================================================
