--------------------------- MODULE ThresholdShares ---------------------------
(***************************************************************************)
(* Threshold decryption in the exponents: the shares of a private key that *)
(* the key ceremony hands out (computeTrusteePolynomial, crypto.c) and the *)
(* weights that put them together again (product_1 and product_2 of        *)
(* src/electionguard/decryption/trustee.c).  Exponents are numbers modulo  *)
(* q; q is a small prime here.                                             *)
(***************************************************************************)
EXTENDS Integers, FiniteSetsExt

CONSTANTS
  NumTrustees,  \* num_trustees
  Threshold,    \* threshold: how many trustees can decrypt
  Q             \* stands for q = 2^256 - 189

ASSUME ThresholdAssumption ==
  /\ NumTrustees \in Nat \ {0}
  /\ Threshold \in 1 .. NumTrustees
  /\ Q \in Nat /\ Q > NumTrustees
  /\ \A d \in 2 .. Q - 1 : Q % d # 0

Trustee == 0 .. NumTrustees - 1
Degree == 0 .. Threshold - 1
Exponent == 0 .. Q - 1

AddModQ(a, b) == (a + b) % Q
SubModQ(a, b) == (a - b) % Q
MulModQ(a, b) == (a * b) % Q
DivModQ(a, b) == MulModQ(a, CHOOSE x \in Exponent : MulModQ(x, b) = 1)

\* The sum and the product of a function's values.
SumModQ(f) == FoldFunction(AddModQ, 0, f)
ProductModQ(f) == FoldFunction(MulModQ, 1, f)

\* What coefficient e of a polynomial counts for in trustee l's share of it: the
\* polynomial is taken at l + 1, for at 0 it is the private key itself.
ShareWeight(l, e) == ProductModQ([i \in 1 .. e |-> l + 1])

\* Trustee l's share of the private key with the given coefficients.
computeTrusteePolynomial(coefficients, l) ==
  SumModQ([e \in Degree |-> MulModQ(coefficients[e], ShareWeight(l, e))])

\* A bug product_1 could have: trustee l itself is not left out.
product_1_of_all(l, available) == ProductModQ([i \in available |-> i + 1])
product_1(l, available) == ProductModQ([i \in available \ {l} |-> i + 1])

\* A bug product_2 could have: the two indices are swapped in the difference.
product_2_swapped(l, available) ==
  ProductModQ([i \in available \ {l} |-> SubModQ(l + 1, i + 1)])
product_2(l, available) ==
  ProductModQ([i \in available \ {l} |-> SubModQ(i + 1, l + 1)])

\* w: the weight of trustee l's share when the trustees in available take part.
LagrangeCoefficient(l, available) ==
  DivModQ(product_1(l, available), product_2(l, available))

==============================================================================
