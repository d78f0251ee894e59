------------------------------- MODULE Powers -------------------------------
(* Powers of whole numbers, multiplied up, and whole numbers in digits.     *)
EXTENDS Integers, Sequences

IntegerPower(base, n) ==
  LET power[e \in 0 .. n] == IF e = 0 THEN 1 ELSE power[e - 1] * base
  IN  power[n]

\* The last n digits of a number, the highest first.
Digits(base, number, n) == [i \in 1 .. n |-> (number \div IntegerPower(base, n - i)) % base]

NumberOf(base, digits) ==
  LET number[k \in 0 .. Len(digits)] ==
        IF k = 0 THEN 0 ELSE number[k - 1] * base + digits[k]
  IN  number[Len(digits)]

=============================================================================
