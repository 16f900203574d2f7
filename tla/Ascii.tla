-------------------------------- MODULE Ascii --------------------------------
(***************************************************************************)
(* Bytes as the writers and readers of src/json.cpp and src/recovery.cpp   *)
(* use them: the ends of a line, and hexadecimal numbers.                  *)
(***************************************************************************)
EXTENDS Integers, Sequences

Byte == 0..255
NewLine == 10
Return == 13
Space == 32
Digit == 48..57

\* The number of values n hexadecimal digits have.
HexPower[n \in Nat] == IF n = 0 THEN 1 ELSE 16 * HexPower[n - 1]

\* "%0nx": the low n digits of v, most significant first.
HexDigit(d) == IF d < 10 THEN 48 + d ELSE 87 + d
Hex(n, v) == [i \in 1..n |-> HexDigit((v \div HexPower[n - i]) % 16)]

\* stoi() and strtoul() in base 16, of digits that Hex wrote.
DigitValue(c) == IF c \in Digit THEN c - 48 ELSE c - 87
HexValue(digits) ==
    LET v[i \in 0..Len(digits)] == IF i = 0 THEN 0 ELSE 16 * v[i - 1] + DigitValue(digits[i])
    IN  v[Len(digits)]
=============================================================================
